---- MODULE Spec2Model ----
(***************************************************************************)
(* Coordination core of the robot head: the tracking loop and the          *)
(* visualization loop of threadHandler, the TrackTarget state kept by      *)
(* visionHandler, and the lifetime of both inside main().                  *)
(***************************************************************************)
EXTENDS Integers, Sequences, FiniteSets, TLC

(* ------------------------------ bounds -------------------------------- *)
\* failed-detection cycles from the start that the history counts
MaxCycles == 3
\* largest configured random_eyes_interval that Init draws
MaxInterval == 1

\* motor readings and whole-degree targets range over -MaxAngle..MaxAngle
MaxAngle == 2
\* a reply of the language model is made of at most MaxTokens pieces
MaxTokens == 3
\* the frames of the geometry calls are 2..MaxDim pixels wide and high
MaxDim == 5

(* --------------------------- configuration ---------------------------- *)
\* ev3_config.json: motor_tolerance, in degrees
TOLERANCE == 1

\* ev3_config.json: relative_listening_position, in tenths
EYEBROW_LISTENING_POSITION == 5

\* ev3_config.json: eyebrow_range and mouth_range, in degrees
EYEBROW_RANGE == [low |-> -2, high |-> 2]
MOUTH_RANGE == [low |-> -2, high |-> 2]

\* ev3_config.json: emotions, the multipliers in tenths
EMOTIONS ==
    [ e \in {"neutral", "happy", "sad"} |->
        CASE e = "happy" -> [mouth_multiplier |-> 10, eyebrow_multiplier |-> 7]
          [] e = "sad" -> [mouth_multiplier |-> -10, eyebrow_multiplier |-> -5]
          [] OTHER -> [mouth_multiplier |-> 0, eyebrow_multiplier |-> 0] ]

\* WINDOW_WIDTH/scale_factor and WINDOW_HEIGHT/scale_factor, the frame in pixels
FrameW == 40
FrameH == 30

None == <<>>

Modes == {"face", "right hand", "left hand", "hands"}
HandModes == {"right hand", "left hand", "hands"}

\* bounding boxes the detectors report, (x, y, w, h) in pixels
FaceBox == <<10, 8, 12, 12>>
RightBox == <<24, 14, 8, 10>>
LeftBox == <<4, 14, 8, 10>>

\* what cvzone's findHands can return: the hands of one frame, in order
HandLists == { <<>>, <<"Right">>, <<"Left">>, <<"Right", "Left">> }

\* names as sequences of words; what recognize_face can find in one frame:
\* no face, or a known face
FrameFaces == { <<>>, << <<"Ann", "Lee">> >> }

\* the draws of randint(5, 40) that the model explores
PctDraws == {5, 40}

VARIABLES
    \* visionHandler
    mode, label, face_names, is_tracking, is_locked, track_position,
    \* threadHandler
    RANDOM_EYES_INTERVAL, end_thread, visionPc, trackPc,
    \* locals of the tracking thread
    loc,
    \* main()
    mainPc,
    \* history of the tracking loop
    pre, cyc, scen,
    \* locals of visualize() while it draws one frame
    vis,
    \* ev3Handler: the flag of the configuration and the call in progress
    ev3,
    \* the conversation loop of main(), Speaking.say and its jaw thread
    conv,
    \* GeminiHandler.get_chat_response: the call in progress
    gem,
    \* one call of a geometry function: its frame, its argument, its result
    calc

vars == << mode, label, face_names, is_tracking, is_locked, track_position,
           RANDOM_EYES_INTERVAL, end_thread, visionPc, trackPc, loc,
           mainPc, pre, cyc, scen, vis, ev3, conv, gem, calc >>

\* the two loops and their lifetime
coreVars == << mode, label, face_names, is_tracking, is_locked, track_position,
               RANDOM_EYES_INTERVAL, end_thread, visionPc, trackPc, loc,
               mainPc, pre, cyc, scen >>

\* the state of the parts that the two loops and their lifetime do not touch
auxVars == << vis, ev3, conv, gem, calc >>

\* what visualize(), the ev3Handler, the conversation loop and
\* get_chat_response leave alone
visRest == << ev3, conv, gem, calc >>
ev3Rest == << coreVars, vis, conv, gem, calc >>
convRest == << coreVars, vis, ev3, gem, calc >>
gemRest == << coreVars, vis, ev3, conv, calc >>
calcRest == << coreVars, vis, ev3, conv, gem >>

visionVars == << mode, label, face_names, is_tracking, is_locked, track_position >>
targetVars == << label, is_tracking, is_locked, track_position >>

(* ------------------------------ helpers ------------------------------- *)
HandBox(type) == IF type = "Right" THEN RightBox ELSE LeftBox

\* str.split()[0]
FirstWord(name) == Head(name)

\* str.capitalize() of the first word of a hand mode
Capitalize(word) ==
    CASE word = "right" -> "Right"
      [] word = "left" -> "Left"
      [] word = "hands" -> "Hands"
      [] OTHER -> "Face"

\* mode.split()[0]
ModeFirstWord(m) ==
    CASE m = "right hand" -> "right"
      [] m = "left hand" -> "left"
      [] m = "hands" -> "hands"
      [] OTHER -> "face"

Min(a, b) == IF a < b THEN a ELSE b

NoLoc == [is_tracking |-> FALSE, pos |-> None, hands |-> <<>>, position |-> None]

\* what one iteration of the tracking loop has done so far
\* visualize() between two frames: nothing loaded, nothing drawn
NoVis == [k |-> 0, x |-> 0, y |-> 0, x2 |-> 0, y2 |-> 0, tmp |-> 0, text |-> "",
          tx |-> 0, ty |-> 0, drawn |-> "none"]

NoCycle == [det |-> "none", detBox |-> None, kind |-> "none", drawn |-> FALSE,
            gen |-> FALSE, acts |-> 0, raised |-> FALSE, afterRaise |-> FALSE]

(* ------------------------------- Init --------------------------------- *)
\* no request has reached a motor
NoReq == [motor |-> "none", target |-> 0, current |-> 0, issued |-> FALSE, cmd |-> 0]

\* ev3Handler between two calls
NoEv3(use) == [use_Mindstorms |-> use, pc |-> "idle", call |-> "none", arg |-> "none",
               todo |-> <<>>, asked |-> <<>>, req |-> NoReq, raised |-> FALSE]

\* the conversation loop before its first iteration
NoConv == [pc |-> "top", justTalked |-> FALSE, prompt |-> <<>>, audible |-> FALSE,
           kind |-> "none", emotion |-> "none", log |-> <<>>, prev |-> "first",
           stop_talking |-> FALSE, jawPc |-> "none", exit |-> "none",
           failed |-> "none"]

\* get_chat_response before its first call
NoGem == [pc |-> "idle", resp |-> "none", text |-> <<>>, response |-> <<>>,
          emotion |-> <<>>]

\* the configuration eye_tracking reads, before any is chosen
NoCfg == [EYE_VERTICAL_AMPLITUDE |-> 0, EYE_HORIZONTAL_AMPLITUDE |-> 0,
          NECK_AMPLITUDE |-> 0, NECK_EYE_DIFF |-> <<1, 1>>,
          CAM_FOV |-> 60, CAM_ANGLE |-> 0, CAM_HEIGHT_DIFF |-> <<0, 1>>]

NoAng == [vertical |-> 0, horizontal |-> 0, neck |-> 0, combined |-> 0,
          raised |-> FALSE]

\* no geometry call yet
NoCalc == [pc |-> "idle", W |-> 0, H |-> 0, box |-> <<>>, out |-> <<>>,
           cfg |-> NoCfg, ang |-> NoAng]

\* the two loops before main() starts them
InitCore ==
    /\ mode = "face"
    /\ label = "Unknown"
    /\ face_names = <<>>
    /\ is_tracking = FALSE
    /\ is_locked = FALSE
    /\ track_position = None
    /\ RANDOM_EYES_INTERVAL \in {0, MaxInterval}
    /\ end_thread = FALSE
    /\ visionPc = "idle"
    /\ trackPc = "idle"
    /\ loc = NoLoc
    /\ mainPc = "start"
    /\ pre = [pos |-> None, locked |-> FALSE]
    /\ cyc = NoCycle
    /\ scen = [n |-> 0, B |-> None]

Init ==
    /\ InitCore
    /\ vis = NoVis
    /\ ev3 = NoEv3(TRUE)
    /\ conv = NoConv
    /\ gem = NoGem
    /\ calc = NoCalc

(* ----------------- pure functions of the tracking cycle ---------------- *)
\* mutant: the loop test ignores the flag
LoopContinues_Forever(flag) == TRUE

\* while not self.end_thread
LoopContinues(flag) == ~flag

\* randint(0, RANDOM_EYES_INTERVAL) == 1
DrawTriggers(draw) == draw = 1

\* success or randint(0, RANDOM_EYES_INTERVAL) == 1
ShouldTrack(success, draw) == success \/ DrawTriggers(draw)

\* mutant: the try statement encloses the while loop
AfterExcept_OutsideLoop == "done"

\* where the except clause of the loop body leaves the thread: at the sleep
\* that ends the iteration, inside the while loop
AfterExcept == "sleep"

\* mutant: the actuation call is not under the if
NoTargetPc_Dedented == "eye"

\* where a cycle without target goes: past the if, to the sleep
NoTargetPc == "sleep"

\* mutant: the first hand is taken whatever its type
SearchHand_Any(hands, search) ==
    [is_tracking |-> hands /= <<>>, pos |-> HandBox(hands[1])]

\* hand_tracking's search for the hand of the requested type; the unbound
\* local of a failed search is swallowed by the bare except
SearchHand(hands, search) ==
    LET idx == { i \in 1..Len(hands) : hands[i] = search }
    IN IF idx = {} THEN [is_tracking |-> FALSE, pos |-> None]
       ELSE [is_tracking |-> TRUE, pos |-> HandBox(search)]

\* self.mode.split()[0].capitalize() if self.mode != "hands" else "Hand"
HandLabel(m) == IF m /= "hands" THEN Capitalize(ModeFirstWord(m)) ELSE "Hand"

\* self.face_names[0].split()[0] if self.face_names else "Unknown"
FaceLabel(names) == IF names /= <<>> THEN FirstWord(names[1]) ELSE "Unknown"

\* int(min(W/scale, H/scale) * (randint(5, 40)/100))
RandomSize(pct) == (Min(FrameW, FrameH) * pct) \div 100

\* the draw of randint(0, limit) that the model explores: the far end
EndDraws(limit) == {limit}

\* mutant: the values are returned without the clamp of line 356
Clamp_None(n, d) == <<n, d>>

\* max(-1.0, min(1.0, n/d)) as a fraction <<numerator, denominator>>
Clamp(n, d) == IF n > d THEN <<d, d>> ELSE IF n < -d THEN <<-d, d>> ELSE <<n, d>>

\* calculate_relative_coords in a frame of width by height pixels:
\* x / (width//2) - 1, y / (height//2) - 1, w / width, h / height, each
\* clamped to [-1, 1]
RelCoordsIn(b, width, height) ==
    << Clamp(b[1] - (width \div 2), width \div 2),
       Clamp(b[2] - (height \div 2), height \div 2),
       Clamp(b[3], width),
       Clamp(b[4], height) >>

RelCoords(b) == RelCoordsIn(b, FrameW, FrameH)

(* --------------------------- tracking thread --------------------------- *)
\* an exception anywhere in the try body: logged by the except clause
Raised(isDetection) ==
    /\ trackPc' = AfterExcept
    /\ cyc' = [cyc EXCEPT !.raised = TRUE,
                          !.det = IF isDetection THEN "raise" ELSE @]

\* line 90: the loop test, and the start of an iteration
TrackCheck ==
    /\ trackPc = "check"
    /\ IF LoopContinues(end_thread)
       THEN /\ trackPc' = "fht_mode"
            /\ cyc' = [NoCycle EXCEPT !.afterRaise = cyc.raised]
       ELSE /\ trackPc' = "done"
            /\ cyc' = NoCycle
    /\ UNCHANGED << auxVars, visionVars, RANDOM_EYES_INTERVAL, end_thread, visionPc, loc,
                    mainPc, pre, scen >>

\* face_hand_tracking, lines 277-279
FhtMode ==
    /\ trackPc = "fht_mode"
    /\ loc' = [loc EXCEPT !.is_tracking = FALSE]
    /\ cyc' = [cyc EXCEPT !.afterRaise = FALSE]
    /\ trackPc' = IF mode \in HandModes THEN "ht_find" ELSE "fht_facetest"
    /\ UNCHANGED << auxVars, visionVars, RANDOM_EYES_INTERVAL, end_thread, visionPc,
                    mainPc, pre, scen >>

\* hand_tracking, lines 399-405 and 438-439: findHands on the current frame
HtFind ==
    /\ trackPc = "ht_find"
    /\ \/ \E hands \in HandLists :
            /\ loc' = [loc EXCEPT !.hands = hands]
            /\ trackPc' = IF hands = <<>> THEN "fht_handlabel" ELSE "ht_408"
            /\ UNCHANGED cyc
       \/ /\ Raised(TRUE)
          /\ loc' = NoLoc
    /\ UNCHANGED << auxVars, visionVars, RANDOM_EYES_INTERVAL, end_thread, visionPc,
                    mainPc, pre, scen >>

\* hand_tracking, lines 408-410: mode "hands" takes the first hand
Ht408 ==
    /\ trackPc = "ht_408"
    /\ IF mode = "hands"
       THEN /\ loc' = [loc EXCEPT !.is_tracking = TRUE, !.pos = HandBox(loc.hands[1]),
                                  !.hands = <<>>]
            /\ trackPc' = "fht_handlabel"
       ELSE /\ trackPc' = "ht_414"
            /\ UNCHANGED loc
    /\ UNCHANGED << auxVars, visionVars, RANDOM_EYES_INTERVAL, end_thread, visionPc,
                    mainPc, pre, cyc, scen >>

\* hand_tracking, lines 414-415 and 422-439
Ht414 ==
    /\ trackPc = "ht_414"
    /\ IF mode = "right hand"
       THEN /\ loc' = [loc EXCEPT !.is_tracking = SearchHand(loc.hands, "Right").is_tracking,
                                  !.pos = SearchHand(loc.hands, "Right").pos,
                                  !.hands = <<>>]
            /\ trackPc' = "fht_handlabel"
       ELSE /\ trackPc' = "ht_416"
            /\ UNCHANGED loc
    /\ UNCHANGED << auxVars, visionVars, RANDOM_EYES_INTERVAL, end_thread, visionPc,
                    mainPc, pre, cyc, scen >>

\* hand_tracking, lines 416-419 and 422-439
Ht416 ==
    /\ trackPc = "ht_416"
    /\ IF mode = "left hand"
       THEN loc' = [loc EXCEPT !.is_tracking = SearchHand(loc.hands, "Left").is_tracking,
                               !.pos = SearchHand(loc.hands, "Left").pos,
                               !.hands = <<>>]
       ELSE loc' = [loc EXCEPT !.hands = <<>>]
    /\ trackPc' = "fht_handlabel"
    /\ UNCHANGED << auxVars, visionVars, RANDOM_EYES_INTERVAL, end_thread, visionPc,
                    mainPc, pre, cyc, scen >>

\* face_hand_tracking, lines 283-284
FhtHandLabel ==
    /\ trackPc = "fht_handlabel"
    /\ IF loc.is_tracking
       THEN /\ label' = HandLabel(mode)
            /\ cyc' = [cyc EXCEPT !.kind = "hand"]
       ELSE UNCHANGED << label, cyc >>
    /\ trackPc' = "fht_facetest"
    /\ UNCHANGED << auxVars, mode, face_names, is_tracking, is_locked, track_position,
                    RANDOM_EYES_INTERVAL, end_thread, visionPc, loc,
                    mainPc, pre, scen >>

\* face_hand_tracking, lines 287 and 294
FhtFaceTest ==
    /\ trackPc = "fht_facetest"
    /\ trackPc' = IF mode = "face" \/ ~loc.is_tracking THEN "fht_face" ELSE "fht_pos"
    /\ UNCHANGED << auxVars, visionVars, RANDOM_EYES_INTERVAL, end_thread, visionPc, loc,
                    mainPc, pre, cyc, scen >>

\* face_tracking, lines 371-387, called at line 288
FhtFace ==
    /\ trackPc = "fht_face"
    /\ \/ /\ loc' = [loc EXCEPT !.is_tracking = TRUE, !.pos = FaceBox]
          /\ trackPc' = "fht_facelabel"
          /\ UNCHANGED cyc
       \/ /\ loc' = [loc EXCEPT !.is_tracking = FALSE, !.pos = None]
          /\ trackPc' = "fht_facelabel"
          /\ UNCHANGED cyc
       \/ /\ Raised(TRUE)
          /\ loc' = NoLoc
    /\ UNCHANGED << auxVars, visionVars, RANDOM_EYES_INTERVAL, end_thread, visionPc,
                    mainPc, pre, scen >>

\* face_hand_tracking, lines 291-294
FhtFaceLabel ==
    /\ trackPc = "fht_facelabel"
    /\ IF loc.is_tracking
       THEN /\ label' = FaceLabel(face_names)
            /\ cyc' = [cyc EXCEPT !.kind = "face"]
            /\ trackPc' = "fht_pos"
       ELSE /\ trackPc' = "fht_fail"
            /\ UNCHANGED << label, cyc >>
    /\ UNCHANGED << auxVars, mode, face_names, is_tracking, is_locked, track_position,
                    RANDOM_EYES_INTERVAL, end_thread, visionPc, loc,
                    mainPc, pre, scen >>

\* mutants: an assignment of the commit is left out
TrackingOnSuccess_Missing == is_tracking
LockedOnSuccess_Missing == is_locked

\* the values face_hand_tracking commits on a detection, lines 297 and 298
TrackingOnSuccess == TRUE
LockedOnSuccess == FALSE

\* mutant: the failed detection clears is_tracking without testing the lock
TrackingAfterFail_Unguarded(locked, tracking) == FALSE

\* line 305: if not self.is_locked: self.is_tracking = False
TrackingAfterFail(locked, tracking) == IF ~locked THEN FALSE ELSE tracking

\* face_hand_tracking, line 296
FhtPos ==
    /\ trackPc = "fht_pos"
    /\ track_position' = loc.pos
    /\ trackPc' = "fht_trk"
    /\ UNCHANGED << auxVars, mode, label, face_names, is_tracking, is_locked,
                    RANDOM_EYES_INTERVAL, end_thread, visionPc, loc,
                    mainPc, pre, cyc, scen >>

\* face_hand_tracking, line 297
FhtTrk ==
    /\ trackPc = "fht_trk"
    /\ is_tracking' = TrackingOnSuccess
    /\ trackPc' = "fht_lock"
    /\ UNCHANGED << auxVars, mode, label, face_names, is_locked, track_position,
                    RANDOM_EYES_INTERVAL, end_thread, visionPc, loc,
                    mainPc, pre, cyc, scen >>

\* face_hand_tracking, line 298
FhtLock ==
    /\ trackPc = "fht_lock"
    /\ is_locked' = LockedOnSuccess
    /\ trackPc' = "fht_ret"
    /\ UNCHANGED << auxVars, mode, label, face_names, is_tracking, track_position,
                    RANDOM_EYES_INTERVAL, end_thread, visionPc, loc,
                    mainPc, pre, cyc, scen >>

\* face_hand_tracking, line 301: return True, self.track_position
FhtRet ==
    /\ trackPc = "fht_ret"
    /\ cyc' = [cyc EXCEPT !.det = "success", !.detBox = loc.pos]
    /\ loc' = [loc EXCEPT !.is_tracking = TRUE, !.pos = track_position]
    /\ trackPc' = "branch"
    /\ UNCHANGED << auxVars, visionVars, RANDOM_EYES_INTERVAL, end_thread, visionPc,
                    mainPc, pre, scen >>

\* face_hand_tracking, lines 303-308
FhtFail ==
    /\ trackPc = "fht_fail"
    /\ is_tracking' = TrackingAfterFail(is_locked, is_tracking)
    /\ cyc' = [cyc EXCEPT !.det = "fail"]
    /\ loc' = [loc EXCEPT !.is_tracking = FALSE, !.pos = None]
    /\ trackPc' = "branch"
    /\ UNCHANGED << auxVars, mode, label, face_names, is_locked, track_position,
                    RANDOM_EYES_INTERVAL, end_thread, visionPc,
                    mainPc, pre, scen >>

\* tracking_handler, line 96: the draw is made only when detection failed
TrackBranch ==
    /\ trackPc = "branch"
    /\ IF loc.is_tracking
       THEN /\ trackPc' = "coords"
            /\ UNCHANGED cyc
       ELSE \E draw \in 0..RANDOM_EYES_INTERVAL :
            /\ cyc' = [cyc EXCEPT !.drawn = TRUE]
            /\ trackPc' = IF ShouldTrack(loc.is_tracking, draw) THEN "srt_draw"
                          ELSE NoTargetPc
    /\ UNCHANGED << auxVars, visionVars, RANDOM_EYES_INTERVAL, end_thread, visionPc, loc,
                    mainPc, pre, scen >>

\* set_random_tracking, lines 323-325: the three draws
SrtDraw ==
    /\ trackPc = "srt_draw"
    /\ \/ \E pct \in PctDraws :
          \E x \in EndDraws(FrameW - RandomSize(pct)) :
          \E y \in EndDraws(FrameH - RandomSize(pct)) :
            /\ loc' = [loc EXCEPT !.pos = <<x, y, RandomSize(pct), RandomSize(pct)>>]
            /\ trackPc' = "srt_trk"
            /\ UNCHANGED cyc
       \/ /\ Raised(FALSE)
          /\ loc' = NoLoc
    /\ UNCHANGED << auxVars, visionVars, RANDOM_EYES_INTERVAL, end_thread, visionPc,
                    mainPc, pre, scen >>

\* set_random_tracking, line 328
SrtTrk ==
    /\ trackPc = "srt_trk"
    /\ is_tracking' = TRUE
    /\ trackPc' = "srt_lock"
    /\ UNCHANGED << auxVars, mode, label, face_names, is_locked, track_position,
                    RANDOM_EYES_INTERVAL, end_thread, visionPc, loc,
                    mainPc, pre, cyc, scen >>

\* set_random_tracking, line 329
SrtLock ==
    /\ trackPc = "srt_lock"
    /\ is_locked' = TRUE
    /\ trackPc' = "srt_label"
    /\ UNCHANGED << auxVars, mode, label, face_names, is_tracking, track_position,
                    RANDOM_EYES_INTERVAL, end_thread, visionPc, loc,
                    mainPc, pre, cyc, scen >>

\* set_random_tracking, line 330
SrtLabel ==
    /\ trackPc = "srt_label"
    /\ label' = "Focus"
    /\ trackPc' = "srt_pos"
    /\ UNCHANGED << auxVars, mode, face_names, is_tracking, is_locked, track_position,
                    RANDOM_EYES_INTERVAL, end_thread, visionPc, loc,
                    mainPc, pre, cyc, scen >>

\* set_random_tracking, lines 332-334
SrtPos ==
    /\ trackPc = "srt_pos"
    /\ track_position' = loc.pos
    /\ cyc' = [cyc EXCEPT !.gen = TRUE]
    /\ trackPc' = "coords"
    /\ UNCHANGED << auxVars, mode, label, face_names, is_tracking, is_locked,
                    RANDOM_EYES_INTERVAL, end_thread, visionPc, loc,
                    mainPc, pre, scen >>

\* tracking_handler, lines 99-101: calculate_relative_coords
TrackCoords ==
    /\ trackPc = "coords"
    /\ \/ /\ loc' = [loc EXCEPT !.position = RelCoords(loc.pos)]
          /\ trackPc' = "eye"
          /\ UNCHANGED cyc
       \/ /\ Raised(FALSE)
          /\ loc' = NoLoc
    /\ UNCHANGED << auxVars, visionVars, RANDOM_EYES_INTERVAL, end_thread, visionPc,
                    mainPc, pre, scen >>

\* tracking_handler, line 107: the actuation call, which returns or raises
TrackEye ==
    /\ trackPc = "eye"
    /\ \/ /\ trackPc' = "sleep"
          /\ cyc' = [cyc EXCEPT !.acts = @ + 1]
       \/ /\ trackPc' = AfterExcept
          /\ cyc' = [cyc EXCEPT !.acts = @ + 1, !.raised = TRUE]
    /\ loc' = NoLoc
    /\ UNCHANGED << auxVars, visionVars, RANDOM_EYES_INTERVAL, end_thread, visionPc,
                    mainPc, pre, scen >>

\* history: scen.n counts the iterations completed so far while every
\* detection failed and no iteration after the first generated a random target
\* (-1 once that is no longer so); scen.B is track_position after the first
ScenAfter(c) ==
    IF scen.n = -1 \/ c.det /= "fail" \/ c.raised \/ (scen.n >= 1 /\ c.gen)
    THEN [n |-> -1, B |-> None]
    ELSE [n |-> IF scen.n < MaxCycles THEN scen.n + 1 ELSE scen.n,
          B |-> IF scen.n = 0 THEN track_position ELSE scen.B]

\* tracking_handler, line 113: the sleep that ends the iteration
TrackSleep ==
    /\ trackPc = "sleep"
    /\ trackPc' = "check"
    /\ pre' = [pos |-> track_position, locked |-> is_locked]
    /\ cyc' = [NoCycle EXCEPT !.raised = cyc.raised]
    /\ scen' = ScenAfter(cyc)
    /\ UNCHANGED << auxVars, visionVars, RANDOM_EYES_INTERVAL, end_thread, visionPc, loc,
                    mainPc >>

TrackStep ==
    \/ TrackCheck \/ FhtMode \/ HtFind \/ Ht408 \/ Ht414 \/ Ht416
    \/ FhtHandLabel \/ FhtFaceTest \/ FhtFace \/ FhtFaceLabel
    \/ FhtPos \/ FhtTrk \/ FhtLock \/ FhtRet \/ FhtFail
    \/ TrackBranch \/ SrtDraw \/ SrtTrk \/ SrtLock \/ SrtLabel \/ SrtPos
    \/ TrackCoords \/ TrackEye \/ TrackSleep

(* ------------------------- visualization thread ------------------------ *)
\* vision_handler, line 77: create_centered_window; an exception ends the thread
VisionWindow ==
    /\ visionPc = "window"
    /\ \/ visionPc' = "check"
       \/ visionPc' = "done"
    /\ UNCHANGED << auxVars, visionVars, RANDOM_EYES_INTERVAL, end_thread, trackPc, loc,
                    mainPc, pre, cyc, scen >>

\* vision_handler, line 79: the loop test
VisionCheck ==
    /\ visionPc = "check"
    /\ visionPc' = IF LoopContinues(end_thread) THEN "visualize" ELSE "done"
    /\ UNCHANGED << auxVars, visionVars, RANDOM_EYES_INTERVAL, end_thread, trackPc, loc,
                    mainPc, pre, cyc, scen >>

\* vision_handler, lines 81-84: visualize() and the sleep; an exception of
\* visualize() is not caught and ends the thread
VisionVisualize ==
    /\ visionPc = "visualize"
    /\ \/ visionPc' = "check"
       \/ visionPc' = "done"
    /\ UNCHANGED << auxVars, visionVars, RANDOM_EYES_INTERVAL, end_thread, trackPc, loc,
                    mainPc, pre, cyc, scen >>

VisionStep == VisionWindow \/ VisionCheck \/ VisionVisualize

(* ------------- visualize(), one attribute load at a time --------------- *)
\* visualize, lines 230-231: the capture; a failed capture ends the thread
VisCapture ==
    /\ visionPc = "visualize"
    /\ \/ visionPc' = "v_trk"
       \/ visionPc' = "done"
    /\ vis' = NoVis
    /\ UNCHANGED << visRest, visionVars, RANDOM_EYES_INTERVAL, end_thread, trackPc, loc,
                    mainPc, pre, cyc, scen >>

\* visualize, line 237: if self.is_tracking
VisIsTracking ==
    /\ visionPc = "v_trk"
    /\ IF is_tracking
       THEN /\ visionPc' = "v_rect"
            /\ vis' = [vis EXCEPT !.k = 1]
       ELSE /\ visionPc' = "v_show"
            /\ UNCHANGED vis
    /\ UNCHANGED << visRest, visionVars, RANDOM_EYES_INTERVAL, end_thread, trackPc, loc,
                    mainPc, pre, cyc, scen >>

\* visualize, line 239: the six loads of self.track_position for the
\* rectangle, [0], [1], [0], [2], [1], [3], in the order Python evaluates them;
\* subscripting None raises, and the bare except of line 241 ends the overlay
VisRectLoad ==
    /\ visionPc = "v_rect"
    /\ IF track_position = None
       THEN /\ visionPc' = "v_show"
            /\ vis' = [vis EXCEPT !.k = 0, !.tmp = 0]
       ELSE /\ vis' = CASE vis.k = 1 -> [vis EXCEPT !.k = 2, !.x = track_position[1]]
                        [] vis.k = 2 -> [vis EXCEPT !.k = 3, !.y = track_position[2]]
                        [] vis.k = 3 -> [vis EXCEPT !.k = 4, !.tmp = track_position[1]]
                        [] vis.k = 4 -> [vis EXCEPT !.k = 5, !.tmp = 0,
                                                    !.x2 = vis.tmp + track_position[3]]
                        [] vis.k = 5 -> [vis EXCEPT !.k = 6, !.tmp = track_position[2]]
                        [] OTHER -> [vis EXCEPT !.k = 0, !.tmp = 0, !.drawn = "rect",
                                                !.y2 = vis.tmp + track_position[4]]
            /\ visionPc' = IF vis.k = 6 THEN "v_label" ELSE "v_rect"
    /\ UNCHANGED << visRest, visionVars, RANDOM_EYES_INTERVAL, end_thread, trackPc, loc,
                    mainPc, pre, cyc, scen >>

\* visualize, line 240: the load of self.label
VisLabel ==
    /\ visionPc = "v_label"
    /\ vis' = [vis EXCEPT !.text = label, !.k = 1]
    /\ visionPc' = "v_text"
    /\ UNCHANGED << visRest, visionVars, RANDOM_EYES_INTERVAL, end_thread, trackPc, loc,
                    mainPc, pre, cyc, scen >>

\* visualize, line 240: the two loads of self.track_position for the origin
\* of the text, to which putText adds a constant offset
VisTextLoad ==
    /\ visionPc = "v_text"
    /\ IF track_position = None
       THEN /\ visionPc' = "v_show"
            /\ vis' = [vis EXCEPT !.k = 0]
       ELSE /\ vis' = IF vis.k = 1
                      THEN [vis EXCEPT !.k = 2, !.tx = track_position[1]]
                      ELSE [vis EXCEPT !.k = 0, !.ty = track_position[2],
                                       !.drawn = "full"]
            /\ visionPc' = IF vis.k = 2 THEN "v_show" ELSE "v_text"
    /\ UNCHANGED << visRest, visionVars, RANDOM_EYES_INTERVAL, end_thread, trackPc, loc,
                    mainPc, pre, cyc, scen >>

\* visualize, lines 243-259, and the sleep of vision_handler, line 84: the
\* frame is shown; an exception of imshow ends the thread
VisShow ==
    /\ visionPc = "v_show"
    /\ \/ visionPc' = "check"
       \/ visionPc' = "done"
    /\ vis' = NoVis
    /\ UNCHANGED << visRest, visionVars, RANDOM_EYES_INTERVAL, end_thread, trackPc, loc,
                    mainPc, pre, cyc, scen >>

VisFineStep ==
    \/ VisionWindow \/ VisionCheck
    \/ VisCapture \/ VisIsTracking \/ VisRectLoad \/ VisLabel \/ VisTextLoad \/ VisShow

(* -------------------------------- main() ------------------------------- *)
\* mutant: stop does not wait for the thread
Joined_NoWait(pc) == TRUE

\* Thread.join(): returns once the thread has ended
Joined(pc) == pc = "done"

\* mutant: the two with blocks are nested the other way round
ConvExitPc_Swapped == "ev3_exit"

\* where main goes when the conversation loop ends, by break or by an
\* exception: out of the inner with block, into threadHandler.__exit__
ConvExitPc == "th_exit"

\* main, line 10: EV3(); a failing constructor ends main before the with body
MainStart ==
    /\ mainPc = "start"
    /\ \/ mainPc' = "setup"
       \/ mainPc' = "done"
    /\ UNCHANGED << auxVars, visionVars, RANDOM_EYES_INTERVAL, end_thread, visionPc, trackPc,
                    loc, pre, cyc, scen >>

\* main, lines 13-16 and the constructor call of line 19: an exception leaves
\* the outer with block before any thread exists
MainSetup ==
    /\ mainPc = "setup"
    /\ \/ mainPc' = "start_vision"
       \/ mainPc' = "ev3_exit"
    /\ UNCHANGED << auxVars, visionVars, RANDOM_EYES_INTERVAL, end_thread, visionPc, trackPc,
                    loc, pre, cyc, scen >>

\* threadHandler.start_threads, lines 62-63
StartVision ==
    /\ mainPc = "start_vision"
    /\ visionPc' = "window"
    /\ mainPc' = "start_track"
    /\ UNCHANGED << auxVars, visionVars, RANDOM_EYES_INTERVAL, end_thread, trackPc, loc,
                    pre, cyc, scen >>

\* threadHandler.start_threads, lines 64-65
StartTrack ==
    /\ mainPc = "start_track"
    /\ trackPc' = "check"
    /\ mainPc' = "conv"
    /\ UNCHANGED << auxVars, visionVars, RANDOM_EYES_INTERVAL, end_thread, visionPc, loc,
                    pre, cyc, scen >>

\* what set_mode is called with: the modes and a value that is none
SetModeArgs == Modes \cup {"eyes"}

\* mutant: the mode is set without the test of line 534
SetMode_Unchecked(m, current) == [mode |-> m, ret |-> TRUE]

\* visionHandler.set_mode, lines 534-538: the mode after the call and the
\* value returned
SetMode(m, current) ==
    IF m \in Modes THEN [mode |-> m, ret |-> TRUE] ELSE [mode |-> current, ret |-> FALSE]

\* visionHandler.set_mode, called by the reply collaborator during a turn
ConvSetMode ==
    /\ mainPc = "conv"
    /\ \E m \in SetModeArgs :
         /\ m /= mode
         /\ mode' = SetMode(m, mode).mode
    /\ UNCHANGED << auxVars, label, face_names, is_tracking, is_locked, track_position,
                    RANDOM_EYES_INTERVAL, end_thread, visionPc, trackPc, loc,
                    mainPc, pre, cyc, scen >>

\* visionHandler.recognize_face, lines 462-485, called by the reply
\* collaborator during a turn: the list is emptied and refilled
ConvRecognizeFace ==
    /\ mainPc = "conv"
    /\ \E faces \in FrameFaces : face_names' = faces
    /\ UNCHANGED << auxVars, mode, label, is_tracking, is_locked, track_position,
                    RANDOM_EYES_INTERVAL, end_thread, visionPc, trackPc, loc,
                    mainPc, pre, cyc, scen >>

\* main, lines 46-48: the shutdown phrase breaks out of the loop
ConvShutdown ==
    /\ mainPc = "conv"
    /\ mainPc' = ConvExitPc
    /\ UNCHANGED << auxVars, visionVars, RANDOM_EYES_INTERVAL, end_thread, visionPc, trackPc,
                    loc, pre, cyc, scen >>

\* main, lines 22-56: an exception raised anywhere in the conversation loop
ConvRaise ==
    /\ mainPc = "conv"
    /\ mainPc' = ConvExitPc
    /\ UNCHANGED << auxVars, visionVars, RANDOM_EYES_INTERVAL, end_thread, visionPc, trackPc,
                    loc, pre, cyc, scen >>

\* threadHandler.__exit__, line 126
ThExitFlag ==
    /\ mainPc = "th_exit"
    /\ end_thread' = TRUE
    /\ mainPc' = "join_vision"
    /\ UNCHANGED << auxVars, visionVars, RANDOM_EYES_INTERVAL, visionPc, trackPc, loc,
                    pre, cyc, scen >>

\* threadHandler.__exit__, lines 127-128
ThJoinVision ==
    /\ mainPc = "join_vision"
    /\ Joined(visionPc)
    /\ mainPc' = "join_track"
    /\ UNCHANGED << auxVars, visionVars, RANDOM_EYES_INTERVAL, end_thread, visionPc, trackPc,
                    loc, pre, cyc, scen >>

\* threadHandler.__exit__, lines 129-130; its return leaves the inner with block
ThJoinTrack ==
    /\ mainPc = "join_track"
    /\ Joined(trackPc)
    /\ mainPc' = "ev3_exit"
    /\ UNCHANGED << auxVars, visionVars, RANDOM_EYES_INTERVAL, end_thread, visionPc, trackPc,
                    loc, pre, cyc, scen >>

\* ev3Handler.__exit__, line 522: _cleanup begins
Ev3Exit ==
    /\ mainPc = "ev3_exit"
    /\ mainPc' = "ev3_cleanup"
    /\ UNCHANGED << auxVars, visionVars, RANDOM_EYES_INTERVAL, end_thread, visionPc, trackPc,
                    loc, pre, cyc, scen >>

\* ev3Handler._cleanup, lines 484-514: neutral pose, centre, stop the motors
Ev3Cleanup ==
    /\ mainPc = "ev3_cleanup"
    /\ mainPc' = "done"
    /\ UNCHANGED << auxVars, visionVars, RANDOM_EYES_INTERVAL, end_thread, visionPc, trackPc,
                    loc, pre, cyc, scen >>

MainStep ==
    \/ MainStart \/ MainSetup \/ StartVision \/ StartTrack
    \/ ConvSetMode \/ ConvRecognizeFace
    \/ ConvShutdown \/ ConvRaise
    \/ ThExitFlag \/ ThJoinVision \/ ThJoinTrack \/ Ev3Exit \/ Ev3Cleanup

(* ------------------------------ ev3Handler ----------------------------- *)
\* positions are kept in tenths of a degree: a motor reading or a whole-degree
\* target d is 10 * d, and a product with a multiplier in tenths is exact
Abs(n) == IF n < 0 THEN -n ELSE n

\* int(position): truncation towards zero, from tenths to whole degrees
ToInt(p) == IF p >= 0 THEN p \div 10 ELSE -((-p) \div 10)

Angles == -MaxAngle..MaxAngle

\* mutant: a position at the edge of the tolerance counts as outside
WithinTolerance_Strict(target, current) == Abs(target - current) < 10 * TOLERANCE

\* within_tolerance: abs(target - current) <= self.TOLERANCE
WithinTolerance(target, current) == Abs(target - current) <= 10 * TOLERANCE

\* one motor asked to go to target while it reads current: start_move_to is
\* called, with int(target), only outside the tolerance
Request(motor, target, current) ==
    [motor |-> motor, target |-> target, current |-> current,
     issued |-> ~WithinTolerance(target, current), cmd |-> ToInt(target)]

\* move_eyebrows, lines 265-270: a predefined position by name
NamedPosition(position) ==
    IF EYEBROW_LISTENING_POSITION > 0
    THEN (IF position = "listening"
          THEN EYEBROW_LISTENING_POSITION * EYEBROW_RANGE.high ELSE 0)
    ELSE (IF position = "listening"
          THEN Abs(EYEBROW_LISTENING_POSITION) * EYEBROW_RANGE.low ELSE 0)

\* get_motor_positions: the targets of the mouth and of the eyebrows; the
\* lookup of an emotion that is no key of the table raises KeyError
MotorPositions(emotion) ==
    LET rel == EMOTIONS[emotion]
    IN [mouth |-> IF rel.mouth_multiplier < 0
                  THEN Abs(rel.mouth_multiplier) * MOUTH_RANGE.low
                  ELSE rel.mouth_multiplier * MOUTH_RANGE.high,
        eyebrow |-> IF rel.eyebrow_multiplier < 0
                    THEN Abs(rel.eyebrow_multiplier) * EYEBROW_RANGE.low
                    ELSE rel.eyebrow_multiplier * EYEBROW_RANGE.high]

\* mutant: a call without the robot fails on the handler's unset attributes
Ignored_Unset(call, arg) ==
    /\ ~ev3.use_Mindstorms
    /\ ev3' = [NoEv3(FALSE) EXCEPT !.call = call, !.arg = arg, !.raised = TRUE]

\* a call that finds use_Mindstorms false returns without touching a motor
Ignored(call, arg) ==
    /\ ~ev3.use_Mindstorms
    /\ ev3' = [NoEv3(FALSE) EXCEPT !.call = call, !.arg = arg]

\* the positions move_eyebrows can be given: a name, or whole degrees
EyebrowArgs == { <<"name", n>> : n \in {"listening", "neutral"} }
               \cup { <<"degrees", a>> : a \in Angles }

\* move_eyebrows, lines 262-285
Ev3MoveEyebrows ==
    /\ ev3.pc = "idle"
    /\ \E position \in EyebrowArgs :
         \/ Ignored("move_eyebrows", position[1])
         \/ /\ ev3.use_Mindstorms
            /\ \E current \in Angles :
                 LET target == IF position[1] = "degrees" THEN 10 * position[2]
                               ELSE NamedPosition(position[2])
                 IN ev3' = [NoEv3(TRUE) EXCEPT
                              !.call = "move_eyebrows", !.arg = position[1],
                              !.asked = << <<"eyebrow", target>> >>,
                              !.req = Request("eyebrow", target, 10 * current)]
    /\ UNCHANGED ev3Rest

\* move_mouth, lines 297-312
Ev3MoveMouth ==
    /\ ev3.pc = "idle"
    /\ \E position \in Angles :
         \/ Ignored("move_mouth", "degrees")
         \/ /\ ev3.use_Mindstorms
            /\ \E current \in Angles :
                 ev3' = [NoEv3(TRUE) EXCEPT
                           !.call = "move_mouth", !.arg = "degrees",
                           !.asked = << <<"mouth", 10 * position>> >>,
                           !.req = Request("mouth", 10 * position, 10 * current)]
    /\ UNCHANGED ev3Rest

\* the emotions a caller can pass: the keys of the table and one that is none
EmotionArgs == DOMAIN EMOTIONS \cup {"confused"}

\* move_to_emotion, lines 435-446: get_motor_positions, then move_mouth, then
\* move_eyebrows
Ev3MoveToEmotion ==
    /\ ev3.pc = "idle"
    /\ \E emotion \in EmotionArgs :
         \/ Ignored("move_to_emotion", emotion)
         \/ /\ ev3.use_Mindstorms
            /\ emotion \notin DOMAIN EMOTIONS
            /\ ev3' = [NoEv3(TRUE) EXCEPT !.call = "move_to_emotion", !.arg = emotion,
                                          !.raised = TRUE]
         \/ /\ ev3.use_Mindstorms
            /\ emotion \in DOMAIN EMOTIONS
            /\ \E current \in Angles :
                 ev3' = [NoEv3(TRUE) EXCEPT
                           !.call = "move_to_emotion", !.arg = emotion,
                           !.asked = << <<"mouth", MotorPositions(emotion).mouth>>,
                                        <<"eyebrow", MotorPositions(emotion).eyebrow>> >>,
                           !.req = Request("eyebrow", MotorPositions(emotion).eyebrow,
                                           10 * current)]
    /\ UNCHANGED ev3Rest

\* move_to_neutral, lines 459-470: move_mouth(0), move_eyebrows(0), close_jaw
Ev3MoveToNeutral ==
    /\ ev3.pc = "idle"
    /\ \/ Ignored("move_to_neutral", "none")
       \/ /\ ev3.use_Mindstorms
          /\ \E current \in Angles :
               ev3' = [NoEv3(TRUE) EXCEPT
                         !.call = "move_to_neutral",
                         !.asked = << <<"mouth", 0>>, <<"eyebrow", 0>> >>,
                         !.req = Request("eyebrow", 0, 10 * current)]
    /\ UNCHANGED ev3Rest

\* eye_tracking, lines 389-418: the three target angles, whole degrees
Ev3EyeTracking ==
    /\ ev3.pc = "idle"
    /\ \/ Ignored("eye_tracking", "none")
       \/ /\ ev3.use_Mindstorms
          /\ \E v \in Angles, h \in Angles, n \in Angles :
               ev3' = [NoEv3(TRUE) EXCEPT
                         !.call = "eye_tracking", !.pc = "move",
                         !.todo = << <<"eye_vertical", 10 * v>>,
                                     <<"eye_horizontal", 10 * h>>,
                                     <<"neck", 10 * n>> >>]
    /\ UNCHANGED ev3Rest

\* eye_tracking, lines 392-394 and 421-423: move_motor_if_needed, once for
\* each of the three motors
Ev3MoveIfNeeded ==
    /\ ev3.pc = "move"
    /\ \E current \in Angles :
         ev3' = [ev3 EXCEPT
                   !.todo = Tail(@),
                   !.asked = Append(@, Head(ev3.todo)),
                   !.req = Request(Head(ev3.todo)[1], Head(ev3.todo)[2], 10 * current),
                   !.pc = IF Len(ev3.todo) = 1 THEN "idle" ELSE "move"]
    /\ UNCHANGED ev3Rest

\* move_jaw, lines 215-226: the jaw is started up (1) or down (-1), whatever
\* its position
Ev3MoveJaw ==
    /\ ev3.pc = "idle"
    /\ \E direction \in {1, -1} :
         \/ Ignored("move_jaw", IF direction = 1 THEN "up" ELSE "down")
         \/ /\ ev3.use_Mindstorms
            /\ ev3' = [NoEv3(TRUE) EXCEPT
                         !.call = "move_jaw",
                         !.arg = IF direction = 1 THEN "up" ELSE "down",
                         !.asked = << <<"jaw", direction>> >>]
    /\ UNCHANGED ev3Rest

\* sync_jaw, lines 228-248: move_jaw(1) below the sound threshold,
\* move_jaw(-1) otherwise
Ev3SyncJaw ==
    /\ ev3.pc = "idle"
    /\ \E volume \in {"below", "above"} :
         \/ Ignored("sync_jaw", volume)
         \/ /\ ev3.use_Mindstorms
            /\ ev3' = [NoEv3(TRUE) EXCEPT
                         !.call = "sync_jaw", !.arg = volume,
                         !.asked = << <<"jaw", IF volume = "below" THEN 1 ELSE -1>> >>]
    /\ UNCHANGED ev3Rest

\* close_jaw, lines 205-213: the jaw is started for the closing time
Ev3CloseJaw ==
    /\ ev3.pc = "idle"
    /\ \/ Ignored("close_jaw", "none")
       \/ /\ ev3.use_Mindstorms
          /\ ev3' = [NoEv3(TRUE) EXCEPT !.call = "close_jaw",
                                        !.asked = << <<"jaw", 0>> >>]
    /\ UNCHANGED ev3Rest

\* _cleanup, lines 484-514: move_to_neutral, then the eyes and the neck to 0
\* if not within tolerance, then every motor is stopped
Ev3CleanupCall ==
    /\ ev3.pc = "idle"
    /\ \/ Ignored("cleanup", "none")
       \/ /\ ev3.use_Mindstorms
          /\ \E current \in Angles :
               ev3' = [NoEv3(TRUE) EXCEPT
                         !.call = "cleanup",
                         !.asked = << <<"mouth", 0>>, <<"eyebrow", 0>>,
                                      <<"eye_horizontal", 0>>, <<"eye_vertical", 0>>,
                                      <<"neck", 0>> >>,
                         !.req = Request("neck", 0, 10 * current)]
    /\ UNCHANGED ev3Rest

Ev3Step ==
    \/ Ev3MoveEyebrows \/ Ev3MoveMouth \/ Ev3MoveToEmotion \/ Ev3MoveToNeutral
    \/ Ev3EyeTracking \/ Ev3MoveIfNeeded
    \/ Ev3MoveJaw \/ Ev3SyncJaw \/ Ev3CloseJaw \/ Ev3CleanupCall

(* -------------------------- conversation loop -------------------------- *)
\* texts are sequences of characters
ShutdownPhrase == <<"s", "h", "u", "t", " ", "d", "o", "w", "n">>

\* what speech_recognition can transcribe
Prompts ==
    { <<"s", "h", "u", "t", " ", "d", "o", "w", "n">>,
      <<"S", "h", "u", "t", " ", "D", "o", "w", "n">>,
      <<"S", "H", "U", "T", " ", "D", "O", "W", "N">>,
      <<"s", "h", "u", "t", "d", "o", "w", "n">>,
      <<"s", "h", "u", "t", " ", "d", "o", "w", "n", " ", "n", "o", "w">>,
      <<"h", "i">> }

\* str.lower(), character by character
LowerChar(c) ==
    CASE c = "S" -> "s" [] c = "H" -> "h" [] c = "U" -> "u" [] c = "T" -> "t"
      [] c = "D" -> "d" [] c = "O" -> "o" [] c = "W" -> "w" [] c = "N" -> "n"
      [] OTHER -> c

\* mutant: the comparison is made without lower()
Lower_AsIs(text) == text

Lower(text) == [i \in 1..Len(text) |-> LowerChar(text[i])]

\* mutants: justTalked is not set after the wake word, not cleared after a
\* turn without transcript
JustTalkedAfterWake_Unset == FALSE
JustTalkedAfterUnheard_Kept == TRUE

\* main, line 31 and line 42
JustTalkedAfterWake == TRUE
JustTalkedAfterUnheard == FALSE

Logged(event) == \E i \in 1..Len(conv.log) : conv.log[i] = event

\* an exception of a collaborator call is caught nowhere in main(): it ends
\* the loop
ConvRaised(at) ==
    conv' = [conv EXCEPT !.pc = "ended", !.exit = "raised", !.failed = at]

\* main, lines 26-31: the start of an iteration and the wake-word wait
ConvTop ==
    /\ conv.pc = "top"
    /\ LET fresh == [conv EXCEPT
                       !.log = <<>>, !.prompt = <<>>, !.audible = FALSE,
                       !.kind = "none", !.emotion = "none",
                       !.prev = IF conv.log = <<>> THEN conv.prev
                                ELSE IF Logged("reply") THEN "replied" ELSE "unheard"]
       IN IF ~conv.justTalked
          THEN \/ conv' = [fresh EXCEPT !.justTalked = JustTalkedAfterWake,
                                        !.log = <<"wake">>, !.pc = "listen_pose"]
               \/ conv' = [fresh EXCEPT !.pc = "ended", !.exit = "raised",
                                        !.failed = "wait_for_keyword"]
          ELSE conv' = [fresh EXCEPT !.pc = "listen_pose"]
    /\ UNCHANGED convRest

\* main, line 35: ev3.move_eyebrows("listening")
ConvListenPose ==
    /\ conv.pc = "listen_pose"
    /\ \/ conv' = [conv EXCEPT !.log = Append(@, "listening_pose"), !.pc = "listen"]
       \/ ConvRaised("move_eyebrows")
    /\ UNCHANGED convRest

\* main, line 36: speech_recognition returns a transcript, or a message with
\* audible False (timeout, unintelligible speech, request error), or raises
ConvListen ==
    /\ conv.pc = "listen"
    /\ \/ \E p \in Prompts :
            conv' = [conv EXCEPT !.prompt = p, !.audible = TRUE, !.kind = "transcript",
                                 !.log = Append(@, "listen"), !.pc = "neutral_pose"]
       \/ \E why \in {"timeout", "inaudible", "request_error"} :
            conv' = [conv EXCEPT !.audible = FALSE, !.kind = why,
                                 !.log = Append(@, "listen"), !.pc = "neutral_pose"]
       \/ ConvRaised("speech_recognition")
    /\ UNCHANGED convRest

\* main, line 37: ev3.move_eyebrows("neutral")
ConvNeutralPose ==
    /\ conv.pc = "neutral_pose"
    /\ \/ conv' = [conv EXCEPT !.log = Append(@, "neutral_pose"), !.pc = "branch"]
       \/ ConvRaised("move_eyebrows")
    /\ UNCHANGED convRest

\* main, lines 40-48: continue without transcript, break on the shutdown phrase
ConvBranch ==
    /\ conv.pc = "branch"
    /\ conv' = IF ~conv.audible
               THEN [conv EXCEPT !.justTalked = JustTalkedAfterUnheard, !.pc = "top"]
               ELSE IF Lower(conv.prompt) = ShutdownPhrase
               THEN [conv EXCEPT !.pc = "ended", !.exit = "shutdown"]
               ELSE [conv EXCEPT !.pc = "reply"]
    /\ UNCHANGED convRest

\* main, line 52: get_chat_response returns a reply or a placeholder with an
\* emotion of the table, or send_message (line 177, outside every try) raises
ConvReply ==
    /\ conv.pc = "reply"
    /\ \/ \E e \in DOMAIN EMOTIONS, k \in {"reply", "placeholder"} :
            conv' = [conv EXCEPT !.emotion = e, !.kind = k,
                                 !.log = Append(@, "reply"), !.pc = "say_emotion"]
       \/ ConvRaised("get_chat_response")
    /\ UNCHANGED convRest

\* say, lines 351-362, with the robot: move_to_emotion, then the jaw thread
\* is started
SayEmotion ==
    /\ conv.pc = "say_emotion"
    /\ IF ev3.use_Mindstorms
       THEN \/ conv' = [conv EXCEPT !.log = Append(@, "emotion"), !.jawPc = "start",
                                    !.pc = "say_speak"]
            \/ ConvRaised("move_to_emotion")
       ELSE conv' = [conv EXCEPT !.pc = "say_speak"]
    /\ UNCHANGED convRest

\* say, lines 365-383: engine.say and runAndWait; without the robot say
\* returns here
SaySpeak ==
    /\ conv.pc = "say_speak"
    /\ \/ conv' = [conv EXCEPT !.log = Append(@, "speak"),
                               !.pc = IF ev3.use_Mindstorms THEN "say_stop" ELSE "top"]
       \/ ConvRaised("engine")
    /\ UNCHANGED convRest

\* say, line 390
SayStop ==
    /\ conv.pc = "say_stop"
    /\ conv' = [conv EXCEPT !.stop_talking = TRUE, !.pc = "say_join"]
    /\ UNCHANGED convRest

\* say, line 391: thread.join()
SayJoin ==
    /\ conv.pc = "say_join"
    /\ Joined(conv.jawPc)
    /\ conv' = [conv EXCEPT !.log = Append(@, "jaw_exit"), !.pc = "say_neutral"]
    /\ UNCHANGED convRest

\* say, line 394: move_to_neutral, and the return to the top of the loop
SayNeutral ==
    /\ conv.pc = "say_neutral"
    /\ \/ conv' = [conv EXCEPT !.log = Append(@, "neutral"), !.pc = "top"]
       \/ ConvRaised("move_to_neutral")
    /\ UNCHANGED convRest

\* sync_mouth, line 322: the input stream opens, or its failure ends the thread
JawStart ==
    /\ conv.jawPc = "start"
    /\ \/ conv' = [conv EXCEPT !.jawPc = "loop"]
       \/ conv' = [conv EXCEPT !.jawPc = "done"]
    /\ UNCHANGED convRest

\* sync_mouth, lines 323-326: the loop ends when stop_talking is set, and
\* clears it
JawLoop ==
    /\ conv.jawPc = "loop"
    /\ conv.stop_talking
    /\ conv' = [conv EXCEPT !.stop_talking = FALSE, !.jawPc = "done"]
    /\ UNCHANGED convRest

ConvStep ==
    \/ ConvTop \/ ConvListenPose \/ ConvListen \/ ConvNeutralPose \/ ConvBranch
    \/ ConvReply \/ SayEmotion \/ SaySpeak \/ SayStop \/ SayJoin \/ SayNeutral
    \/ JawStart \/ JawLoop

(* -------------------------- get_chat_response -------------------------- *)
\* the keys of the emotion table, spelled
Spell(e) ==
    CASE e = "happy" -> <<"h", "a", "p", "p", "y">>
      [] e = "sad" -> <<"s", "a", "d">>
      [] OTHER -> <<"n", "e", "u", "t", "r", "a", "l">>

EmotionKeys == { Spell(e) : e \in DOMAIN EMOTIONS }

\* the characters of the replies: letters, other printable ASCII, the newline
\* and one character outside ASCII
Letters == {"s", "a", "d", "m", "h", "i", "o", "n", "e", "S", "N"}
Printable == Letters \cup {" ", "!", "[", "]"}
Whitespace == {" ", "\n"}
NonAscii == "u00e9"

\* the pieces replies are made of
Tokens ==
    { <<"s", "a", "d">>,
      <<"S", "a", "d", "!">>,
      <<"[", "s", "a", "d", "]">>,
      <<"m", "a", "d">>,
      <<"h", "i">>,
      <<" ">>,
      <<"\n">>,
      <<NonAscii>> }

RECURSIVE Flatten(_)
Flatten(pieces) ==
    IF pieces = <<>> THEN <<>> ELSE Head(pieces) \o Flatten(Tail(pieces))

\* the texts a response can carry
Texts == { Flatten(ps) : ps \in UNION { [1..n -> Tokens] : n \in 0..MaxTokens } }

\* str(None)
NoneText == <<"N", "o", "n", "e">>

RECURSIVE LStrip(_)
LStrip(t) == IF t /= <<>> /\ Head(t) \in Whitespace THEN LStrip(Tail(t)) ELSE t

RECURSIVE RStrip(_)
RStrip(t) ==
    IF t /= <<>> /\ t[Len(t)] \in Whitespace THEN RStrip(SubSeq(t, 1, Len(t) - 1)) ELSE t

\* str.strip()
Strip(t) == RStrip(LStrip(t))

IsPrintable(c) == c \in Printable
IsLetter(c) == c \in Letters

\* line 194: re.sub(r'[^\x20-\x7E]', '', text.replace('\n', ' ')).strip()
Filtered(t) ==
    Strip(SelectSeq([i \in 1..Len(t) |-> IF t[i] = "\n" THEN " " ELSE t[i]], IsPrintable))

\* line 197: split(maxsplit=1) of a stripped text: no word, one, or the first
\* word and the rest
RECURSIVE FirstWord1(_)
FirstWord1(t) ==
    IF t = <<>> \/ Head(t) \in Whitespace THEN <<>> ELSE <<Head(t)>> \o FirstWord1(Tail(t))

Split1(t) ==
    IF t = <<>> THEN <<>>
    ELSE LET rest == LStrip(SubSeq(t, Len(FirstWord1(t)) + 1, Len(t)))
         IN IF rest = <<>> THEN <<FirstWord1(t)>> ELSE <<FirstWord1(t), rest>>

\* line 204: re.sub(r'[^a-zA-Z]+', '', word).lower().strip()
PotentialEmotion(word) == Strip(Lower(SelectSeq(word, IsLetter)))

\* mutant: the first word is taken as the emotion without the table
TagAccepted_NoTable(potential, words) == Len(words) > 1

\* line 207: potential_emotion in self.EMOTIONS and len(prompt_words) > 1
TagAccepted(potential, words) == potential \in EmotionKeys /\ Len(words) > 1

\* choice(self.EMOTIONS)
Choice == EmotionKeys

\* get_chat_response, lines 165-174: the call begins; without a chat it
\* returns at once
GemCall ==
    /\ gem.pc \in {"idle", "returned"}
    /\ \/ gem' = [NoGem EXCEPT !.pc = "called"]
       \/ \E e \in Choice :
            gem' = [NoGem EXCEPT !.pc = "returned", !.resp = "no_chat", !.emotion = e]
    /\ UNCHANGED gemRest

\* get_chat_response, line 177: send_message returns a response with a text,
\* with text None, or without a text attribute, or raises
GemSend ==
    /\ gem.pc = "called"
    /\ \/ \E t \in Texts : gem' = [gem EXCEPT !.pc = "sent", !.resp = "text", !.text = t]
       \/ gem' = [gem EXCEPT !.pc = "sent", !.resp = "text", !.text = NoneText]
       \/ gem' = [gem EXCEPT !.pc = "sent", !.resp = "no_text"]
       \/ gem' = [gem EXCEPT !.pc = "raised", !.resp = "raised"]
    /\ UNCHANGED gemRest

\* get_chat_response, lines 180-229
GemParse ==
    /\ gem.pc = "sent"
    /\ IF gem.resp = "no_text"
       THEN \E e \in Choice :
              gem' = [gem EXCEPT !.pc = "returned", !.emotion = e, !.resp = "placeholder"]
       ELSE LET filtered == Filtered(Strip(gem.text))
                words == Split1(filtered)
            IN IF words /= <<>> /\ TagAccepted(PotentialEmotion(words[1]), words)
               THEN gem' = [gem EXCEPT !.pc = "returned",
                                       !.emotion = PotentialEmotion(words[1]),
                                       !.response = words[2]]
               ELSE \E e \in Choice :
                      gem' = [gem EXCEPT !.pc = "returned", !.emotion = e,
                                         !.response = filtered]
    /\ UNCHANGED gemRest

GemStep == GemCall \/ GemSend \/ GemParse

(* --------------------------- geometry calls ---------------------------- *)
\* the frame sizes explored: even and odd, from 2 pixels
Dims == 2..MaxDim

\* the bboxes a detector can hand over in a frame: inside it, or
\* overshooting it by a pixel on any side
Overshoot(width, height) ==
    { <<x, y, w, h>> : x \in -1..(width + 1), y \in -1..(height + 1),
                       w \in 0..(width + 1), h \in 0..(height + 1) }

WithinFrame(b, width, height) ==
    /\ 0 <= b[1] /\ b[1] + b[3] <= width /\ 0 <= b[3]
    /\ 0 <= b[2] /\ b[2] + b[4] <= height /\ 0 <= b[4]

\* visualize, line 230: the frame whose shape the next call reads
CoordsFrame ==
    /\ calc.pc \in {"idle", "returned"}
    /\ \E width \in Dims, height \in Dims :
         calc' = [NoCalc EXCEPT !.pc = "framed", !.W = width, !.H = height]
    /\ UNCHANGED calcRest

\* calculate_relative_coords, lines 348-359, called with a bbox
CoordsCall ==
    /\ calc.pc = "framed"
    /\ \E b \in Overshoot(calc.W, calc.H) :
         calc' = [calc EXCEPT !.pc = "returned", !.box = b,
                              !.out = RelCoordsIn(b, calc.W, calc.H)]
    /\ UNCHANGED calcRest

CoordsStep == CoordsFrame \/ CoordsCall

(* ------------------------- eye_tracking angles ------------------------- *)
\* exact fractions <<numerator, denominator>>, denominator > 0, kept reduced
RECURSIVE Gcd(_, _)
Gcd(a, b) == IF b = 0 THEN a ELSE Gcd(b, a % b)

Norm(f) ==
    LET g == Gcd(Abs(f[1]), f[2]) IN IF g = 0 THEN f ELSE <<f[1] \div g, f[2] \div g>>

FAdd(a, b) == Norm(<<a[1] * b[2] + b[1] * a[2], a[2] * b[2]>>)
FSub(a, b) == FAdd(a, <<-b[1], b[2]>>)
FMul(a, b) == Norm(<<a[1] * b[1], a[2] * b[2]>>)
\* a / b for b > 0
FDiv(a, b) == FMul(a, <<b[2], b[1]>>)
\* int(): truncation toward zero
FInt(f) == IF f[1] >= 0 THEN f[1] \div f[2] ELSE -((-f[1]) \div f[2])

\* np.radians(1), with pi taken as 22/7
Radian == <<11, 630>>

\* the configurations explored: amplitudes in degrees (0 included), the
\* neck/eye ratio, the camera's tilt and height compensation
Configs ==
    { [NoCfg EXCEPT !.EYE_VERTICAL_AMPLITUDE = v, !.EYE_HORIZONTAL_AMPLITUDE = e,
                    !.NECK_AMPLITUDE = n, !.NECK_EYE_DIFF = d,
                    !.CAM_ANGLE = cam[1], !.CAM_HEIGHT_DIFF = cam[2]] :
        v \in {0, 3}, e \in {0, 2, 5}, n \in {0, 4}, d \in { <<2, 1>>, <<3, 2>> },
        cam \in { <<0, <<0, 1>> >>, <<15, <<1, 10>> >> } }

\* convert_to_theoretical_coords, lines 365-380
ConvertToTheoreticalCoords(cfg, bbox) ==
    LET tilt_angle_rad == FMul(<<cfg.CAM_ANGLE, 1>>, Radian)
        fov_half == FMul(<<cfg.CAM_FOV, 2>>, Radian)
        vertical_angle == FMul(bbox[2], fov_half)
        corrected_vertical_angle ==
            FAdd(FSub(vertical_angle, tilt_angle_rad), FMul(bbox[4], cfg.CAM_HEIGHT_DIFF))
        corrected_y == FDiv(corrected_vertical_angle, fov_half)
    IN << bbox[1], Clamp(corrected_y[1], corrected_y[2]), bbox[3], bbox[4] >>

\* mutant: the eye is always sent to its limit
EyeAngle_Saturated(cfg, combined, max_eye) == max_eye

\* eye_tracking, line 415
EyeAngle(cfg, combined, max_eye) ==
    IF Abs(combined) < cfg.EYE_HORIZONTAL_AMPLITUDE THEN combined ELSE max_eye

\* mutant: the remainder drives the neck without the ratio
NeckAngle_Unscaled(cfg, combined, eye, max_eye) ==
    IF eye = max_eye THEN combined - eye ELSE 0

\* eye_tracking, line 418
NeckAngle(cfg, combined, eye, max_eye) ==
    IF eye = max_eye THEN FInt(FMul(<<combined - eye, 1>>, cfg.NECK_EYE_DIFF)) ELSE 0

\* eye_tracking, lines 414-418; combined / abs(combined) divides by zero
\* when combined is 0
Saturating(cfg, combined) ==
    IF combined = 0
    THEN [eye |-> 0, neck |-> 0, raised |-> TRUE]
    ELSE LET max_eye == (IF combined > 0 THEN 1 ELSE -1) * cfg.EYE_HORIZONTAL_AMPLITUDE
             eye == EyeAngle(cfg, combined, max_eye)
         IN [eye |-> eye, neck |-> NeckAngle(cfg, combined, eye, max_eye),
             raised |-> FALSE]

\* mutant: no case for a combined angle of 0
HorizontalAngles_Unguarded(cfg, combined) == Saturating(cfg, combined)

\* eye_tracking, lines 410-418
HorizontalAngles(cfg, combined) ==
    IF combined = 0 THEN [eye |-> 0, neck |-> 0, raised |-> FALSE]
    ELSE Saturating(cfg, combined)

\* eye_tracking, lines 396-418: the three angles for a relative bbox
EyeAngles(cfg, target_position) ==
    LET x == FAdd(target_position[1], FMul(target_position[3], <<1, 2>>))
        y == FAdd(target_position[2], FMul(target_position[4], <<1, 2>>))
        theoretical ==
            ConvertToTheoreticalCoords(cfg, <<x, y, target_position[3], target_position[4]>>)
        combined ==
            FInt(FMul(x, FAdd(<<cfg.EYE_HORIZONTAL_AMPLITUDE, 1>>,
                              FDiv(<<cfg.NECK_AMPLITUDE, 1>>, cfg.NECK_EYE_DIFF))))
        hor == HorizontalAngles(cfg, combined)
    IN [vertical |-> FInt(FMul(theoretical[2], <<cfg.EYE_VERTICAL_AMPLITUDE, 1>>)),
        horizontal |-> hor.eye, neck |-> hor.neck, combined |-> combined,
        raised |-> hor.raised]

\* the frames of the eye_tracking calls: an even and an odd width
EyeFrames == { <<MaxDim - 1, MaxDim - 1>>, <<MaxDim, MaxDim - 1>> }

\* tracking_handler, lines 99-101: calculate_relative_coords of a bbox
AngleCall ==
    /\ calc.pc = "idle"
    /\ \E f \in EyeFrames :
       \E b \in Overshoot(f[1], f[2]) :
         calc' = [calc EXCEPT !.pc = "called", !.W = f[1], !.H = f[2], !.box = b,
                              !.out = RelCoordsIn(b, f[1], f[2])]
    /\ UNCHANGED calcRest

\* tracking_handler, line 107: eye_tracking of the relative bbox
AngleCompute ==
    /\ calc.pc = "called"
    /\ calc' = [calc EXCEPT !.pc = "returned", !.ang = EyeAngles(calc.cfg, calc.out)]
    /\ UNCHANGED calcRest

\* tracking_handler, line 113: the iteration ends
AngleReturn ==
    /\ calc.pc = "returned"
    /\ calc' = [NoCalc EXCEPT !.cfg = calc.cfg]
    /\ UNCHANGED calcRest

AngleStep == AngleCall \/ AngleCompute \/ AngleReturn

(* --------------------------- specifications ---------------------------- *)
Next == TrackStep \/ VisionStep \/ MainStep

Spec == Init /\ [][Next]_vars

\* every thread that can take a step eventually takes one
LiveSpec ==
    /\ Init
    /\ [][Next]_vars
    /\ WF_vars(TrackStep)
    /\ WF_vars(VisionStep)
    /\ WF_vars(ThJoinVision \/ ThJoinTrack)

\* the steps of the tracking loop that mode "face" can take
FaceTrackStep ==
    \/ TrackCheck \/ FhtMode \/ FhtFaceTest \/ FhtFace \/ FhtFaceLabel
    \/ FhtPos \/ FhtTrk \/ FhtLock \/ FhtRet \/ FhtFail
    \/ TrackBranch \/ SrtDraw \/ SrtTrk \/ SrtLock \/ SrtLabel \/ SrtPos
    \/ TrackCoords \/ TrackEye \/ TrackSleep

\* the two loops side by side, with visualize() taken one load at a time,
\* while main stays in the conversation loop and the mode stays "face"
RaceNext ==
    \/ MainStart \/ MainSetup \/ StartVision \/ StartTrack
    \/ FaceTrackStep
    \/ VisFineStep

RaceSpec == Init /\ [][RaceNext]_vars

\* a part on its own, with and without the robot (use_Mindstorms)
PartsInit ==
    /\ InitCore
    /\ vis = NoVis
    /\ ev3 \in { NoEv3(use) : use \in BOOLEAN }
    /\ conv = NoConv
    /\ gem = NoGem
    /\ calc = NoCalc

\* the ev3Handler under the calls of its users
MotorSpec == PartsInit /\ [][Ev3Step]_vars

\* the conversation loop of main() with the jaw thread of say
ConvSpec == PartsInit /\ [][ConvStep]_vars

\* mutant: a turn step waits for the tracking loop to reach its sleep
ConvRuns_AfterCycle == mainPc = "conv" /\ trackPc = "sleep"

\* main, lines 19-26: the conversation loop runs inside the thread handler's
\* with block, once both threads are started
ConvRuns == mainPc = "conv"

\* a step of the conversation next to the two loops; the turns explored here
\* have one transcript and one emotion
TurnStep ==
    /\ ConvRuns
    /\ ConvStep
    /\ conv'.prompt \in {<<>>, <<"h", "i">>}
    /\ conv'.emotion \in {"none", "happy"}
    /\ conv'.kind \in {"none", "transcript", "timeout", "reply"}
    /\ conv'.failed \in {"none", "get_chat_response"}

\* main in its conversation loop with the visualization and tracking loops
\* running beside it, the mode staying "face"
TogetherNext ==
    \/ MainStart \/ MainSetup \/ StartVision \/ StartTrack
    \/ FaceTrackStep
    \/ VisionStep
    \/ TurnStep

TogetherSpec == Init /\ [][TogetherNext]_vars

\* calculate_relative_coords over frames and bboxes
CoordsSpec == Init /\ [][CoordsStep]_vars

\* eye_tracking of what calculate_relative_coords returns, under each
\* configuration
AngleInit ==
    /\ InitCore
    /\ vis = NoVis /\ ev3 = NoEv3(TRUE) /\ conv = NoConv /\ gem = NoGem
    /\ calc \in { [NoCalc EXCEPT !.cfg = c] : c \in Configs }

AngleSpec == AngleInit /\ [][AngleStep]_vars

\* get_chat_response under the responses of the language model
ReplySpec == PartsInit /\ [][GemStep]_vars

(* ------------------------------- claims -------------------------------- *)
\* the iteration of the tracking loop has ended: the thread is at the sleep
CycleEnd == trackPc = "sleep"

\* face_hand_tracking has written track_position and not yet returned
InSuccessCommit == trackPc \in {"fht_trk", "fht_lock", "fht_ret"}

\* main is past threadHandler.__exit__, or never entered the inner with block
StopReturned == mainPc \in {"ev3_exit", "ev3_cleanup", "done"}

CleanupBegun == mainPc \in {"ev3_cleanup", "done"}

LoopsExited == visionPc = "done" /\ trackPc = "done"

\* the tracking thread issues the actuation call
EyeCall == trackPc = "eye" /\ trackPc' /= "eye"

\* the detected bbox replaces track_position and the lock is cleared
SuccessReplaces ==
    cyc.det = "success" => (track_position = cyc.detBox /\ ~is_locked)

C3_Claim ==
    cyc.drawn => Cardinality({ d \in 0..RANDOM_EYES_INTERVAL : DrawTriggers(d) }) = 1

\* C4: a cycle issues at most one actuation call; a cycle that raised nothing
\* issues one exactly when its detection succeeded or it generated a random
\* target, and a failed cycle without trigger and without lock ends in
\* NO_TARGET with no call.
C4_OneActuation ==
    /\ cyc.acts <= 1
    /\ (CycleEnd /\ ~cyc.raised)
          => /\ (cyc.acts = 1) <=> (cyc.det = "success" \/ cyc.gen)
             /\ (cyc.det = "fail" /\ ~cyc.gen /\ ~pre.locked)
                   => (~is_tracking /\ cyc.acts = 0)

C4_Witness ==
    /\ CycleEnd /\ ~cyc.raised /\ cyc.det = "fail" /\ cyc.gen /\ cyc.acts = 1

\* the labels a detection of each kind can leave
KindLabels(kind) ==
    IF kind = "face" THEN {"Unknown", "Ann"} ELSE {"Right", "Left", "Hand", "Face"}

\* C5: a successful detection leaves track_position at the detected bbox,
\* is_tracking true, is_locked false and the label of the detection, whatever
\* the state before.
C5_SuccessCommit ==
    cyc.det = "success"
        => /\ track_position = cyc.detBox
           /\ cyc.detBox \in {FaceBox, RightBox, LeftBox}
           /\ is_tracking /\ ~is_locked
           /\ label \in KindLabels(cyc.kind)

C5_Witness ==
    /\ CycleEnd /\ cyc.det = "success" /\ pre.locked /\ pre.pos /= track_position

\* C6: stop sets the flag before it waits, and has returned only when both
\* loops have exited.
C6_JoinBeforeReturn ==
    /\ mainPc \in {"join_vision", "join_track"} => end_thread
    /\ mainPc = "join_track" => visionPc = "done"
    /\ (StopReturned /\ end_thread) => LoopsExited

C6_Witness ==
    /\ mainPc = "ev3_exit" /\ end_thread /\ LoopsExited /\ is_tracking

\* C7: no actuation call is issued once threadHandler.__exit__ has returned,
\* and the EV3 cleanup begins only when no loop is running.
C7_NoActuationAfterStop ==
    /\ [][StopReturned => ~EyeCall]_vars
    /\ [](CleanupBegun => (visionPc \in {"idle", "done"} /\ trackPc \in {"idle", "done"}))

C7_Witness ==
    /\ mainPc = "done" /\ end_thread /\ LoopsExited /\ track_position /= None

\* C8: once the termination flag is set, both loops eventually exit and stop
\* eventually returns, when every thread that can step does step and every
\* collaborator call returns or raises.
C8_Termination == end_thread ~> (LoopsExited /\ StopReturned)

C8_Witness ==
    /\ end_thread /\ LoopsExited /\ StopReturned /\ is_tracking /\ is_locked

\* C9: the tracking thread ends only at the loop test with the flag set; a
\* step that raises leaves it at the sleep inside the loop.
C9_LoopSurvives ==
    [][ /\ (trackPc /= "done" /\ trackPc' = "done") => (trackPc = "check" /\ end_thread)
        /\ (~cyc.raised /\ cyc'.raised) => trackPc' = "sleep" ]_vars

C9_Witness == trackPc = "fht_mode" /\ cyc.afterRaise /\ ~end_thread

\* C10 as stated: a cycle whose detection throws is handled as a failed
\* detection: an unlocked target is cleared to NO_TARGET and the random-focus
\* draw is evaluated.
C10_Claim ==
    (CycleEnd /\ cyc.det = "raise")
        => /\ ~pre.locked => ~is_tracking
           /\ cyc.drawn

\* the bounding boxes set_random_tracking can synthesize
RandomBoxes ==
    UNION { { <<x, y, RandomSize(pct), RandomSize(pct)>> :
                x \in EndDraws(FrameW - RandomSize(pct)),
                y \in EndDraws(FrameH - RandomSize(pct)) } : pct \in PctDraws }

\* every TrackTarget (bbox, label) that one update of the tracking loop writes
TargetUpdates ==
    { <<FaceBox, FaceLabel(names)>> : names \in FrameFaces }
    \cup { <<HandBox(t), l>> : t \in {"Right", "Left"}, l \in {"Right", "Left", "Hand"} }
    \cup { <<b, "Focus">> : b \in RandomBoxes }

\* the frame visualize() has drawn is the overlay of the target u
DrawnFrom(u) ==
    /\ vis.x = u[1][1] /\ vis.y = u[1][2]
    /\ vis.x2 = u[1][1] + u[1][3] /\ vis.y2 = u[1][2] + u[1][4]
    /\ vis.drawn = "full" => (vis.text = u[2] /\ vis.tx = u[1][1] /\ vis.ty = u[1][2])

\* C11 as stated: the rectangle and the label that visualize() draws in one
\* frame all come from one single update of the tracking loop, under every
\* interleaving of the two loops.
C11_Claim ==
    (visionPc = "v_show" /\ vis.drawn /= "none")
        => \E u \in TargetUpdates : DrawnFrom(u)

\* hand_tracking run under one value m of the mode, on the hands of one frame
HandTracking(m, hands) ==
    IF hands = <<>> THEN [is_tracking |-> FALSE, pos |-> None]
    ELSE IF m = "hands" THEN [is_tracking |-> TRUE, pos |-> HandBox(hands[1])]
    ELSE IF m = "right hand" THEN SearchHand(hands, "Right")
    ELSE IF m = "left hand" THEN SearchHand(hands, "Left")
    ELSE [is_tracking |-> FALSE, pos |-> None]

\* the (bbox, label) that a successful face_hand_tracking returns when every
\* read of the mode in it gives m
ModeResults(m) ==
    { <<FaceBox, FaceLabel(names)>> : names \in FrameFaces }
    \cup IF m \in HandModes
         THEN { <<HandTracking(m, hands).pos, HandLabel(m)>> :
                  hands \in { h \in HandLists : HandTracking(m, h).is_tracking } }
         ELSE {}

\* C12 as stated: the bbox and the label of a successful detection cycle are
\* those of the cycle run under one value of the mode, the old one or the new
\* one, also when set_mode is called while face_hand_tracking runs.
C12_Claim ==
    trackPc = "fht_ret" => \E m \in Modes : <<loc.pos, label>> \in ModeResults(m)

\* C13: a request to a motor issues a command exactly when the target is more
\* than the tolerance away from the motor's reading, for the eye, neck,
\* eyebrow and mouth motors; a target within the tolerance issues none. Without
\* the robot (use_Mindstorms false) no request reaches a motor.
C13_MoveIffOutside ==
    /\ ev3.req.motor /= "none"
          => /\ ev3.req.issued <=> Abs(ev3.req.target - ev3.req.current) > 10 * TOLERANCE
             /\ ev3.req.motor \in {"eye_vertical", "eye_horizontal", "neck",
                                   "eyebrow", "mouth"}
    /\ ~ev3.use_Mindstorms => (ev3.req = NoReq /\ ev3.asked = <<>>)

C13_Witness ==
    /\ ev3.call = "eye_tracking" /\ ev3.pc = "idle" /\ ev3.req.motor = "neck"
    /\ Abs(ev3.req.target - ev3.req.current) = 10 * TOLERANCE
    /\ ev3.req.target /= ev3.req.current /\ ~ev3.req.issued

\* how often, and where first, the iteration in the log made an event
Count(event) == Cardinality({ i \in 1..Len(conv.log) : conv.log[i] = event })
Pos(event) == CHOOSE i \in 1..Len(conv.log) : conv.log[i] = event

\* the log of the iteration ends with the events of tail
EndsWith(tail) ==
    /\ Len(conv.log) >= Len(tail)
    /\ SubSeq(conv.log, Len(conv.log) - Len(tail) + 1, Len(conv.log)) = tail

\* C14: after the wake word the eyebrows are commanded to the listening pose
\* and the controller listens; a listening that ends without transcript has
\* commanded the eyebrows to neutral exactly once, clears justTalked, and the
\* next listening comes after a new wake-word wait.
C14_WakeThenListen ==
    /\ conv.pc = "listen" => EndsWith(<<"listening_pose">>)
    /\ (Logged("wake") /\ Len(conv.log) >= 2) => conv.log[2] = "listening_pose"
    /\ (conv.pc \in {"branch", "top"} /\ Logged("listen") /\ ~conv.audible)
          => Count("neutral_pose") = 1
    /\ (conv.pc = "top" /\ Logged("listen") /\ ~Logged("reply"))
          => (~conv.audible /\ ~conv.justTalked)
    /\ (conv.prev = "unheard" /\ conv.log /= <<>>) => conv.log[1] = "wake"

C14_Witness ==
    /\ conv.prev = "unheard" /\ conv.pc = "listen"
    /\ conv.log = <<"wake", "listening_pose">>

\* C15: after a transcribed turn that was answered, the next iteration goes
\* to the listening pose and LISTENING at once, without wake-word wait; the
\* wake-word wait is made on the first turn and after a turn without
\* transcript, and only then.
C15_FollowUp ==
    /\ (conv.prev = "replied" /\ conv.log /= <<>>)
          => (~Logged("wake") /\ conv.log[1] = "listening_pose")
    /\ (conv.prev \in {"first", "unheard"} /\ conv.pc \notin {"top", "ended"})
          => Count("wake") = 1
    /\ Logged("wake") => conv.prev \in {"first", "unheard"}

C15_Witness ==
    /\ conv.prev = "replied" /\ conv.pc = "listen" /\ conv.log = <<"listening_pose">>

\* upper case of the letters of the shutdown phrase
UpperChar(c) ==
    CASE c = "s" -> "S" [] c = "h" -> "H" [] c = "u" -> "U" [] c = "t" -> "T"
      [] c = "d" -> "D" [] c = "o" -> "O" [] c = "w" -> "W" [] c = "n" -> "N"
      [] OTHER -> c

\* text is phrase up to the case of its letters
AnyCase(text, phrase) ==
    /\ Len(text) = Len(phrase)
    /\ \A i \in 1..Len(phrase) : text[i] \in {phrase[i], UpperChar(phrase[i])}

\* C16: the loop ends by the break exactly on a transcript that is the
\* shutdown phrase in any letter case, in that turn, with no reply requested
\* and nothing spoken; any other transcript goes on to the reply.
C16_Shutdown ==
    /\ (conv.pc = "ended" /\ conv.exit = "shutdown")
          => /\ conv.audible /\ AnyCase(conv.prompt, ShutdownPhrase)
             /\ ~Logged("reply") /\ ~Logged("emotion") /\ ~Logged("speak")
    /\ (conv.audible /\ AnyCase(conv.prompt, ShutdownPhrase))
          => conv.pc \in {"neutral_pose", "branch", "ended"}
    /\ (conv.audible /\ ~AnyCase(conv.prompt, ShutdownPhrase))
          => conv.exit /= "shutdown"

C16_Witness ==
    /\ conv.pc = "ended" /\ conv.exit = "shutdown" /\ conv.prev = "replied"
    /\ conv.prompt /= ShutdownPhrase

\* C17: with the robot, the emotion gesture is made before the speech starts;
\* the loop is back at its top after a reply only when the speech is over,
\* the jaw thread has ended and the face was commanded to neutral, in this
\* order; no jaw thread runs while the controller waits or listens. Without
\* the robot there is no gesture and no jaw thread, and the speech is over.
C17_SpeechCompletes ==
    /\ (ev3.use_Mindstorms /\ Logged("speak"))
          => (Logged("emotion") /\ Pos("emotion") < Pos("speak"))
    /\ (conv.pc = "top" /\ Logged("reply"))
          => IF ev3.use_Mindstorms
             THEN EndsWith(<<"emotion", "speak", "jaw_exit", "neutral">>)
                  /\ conv.jawPc = "done"
             ELSE EndsWith(<<"reply", "speak">>)
    /\ conv.pc \in {"top", "listen_pose", "listen", "neutral_pose", "branch", "reply"}
          => conv.jawPc \in {"none", "done"}

C17_Witness ==
    /\ ev3.use_Mindstorms /\ conv.pc = "listen" /\ conv.prev = "replied"
    /\ conv.jawPc = "done"

\* C18 as stated: when the request for the reply raises, the turn yields a
\* placeholder reply with an emotion of the table and the loop goes on.
C18_Claim ==
    conv.failed = "get_chat_response"
        => (conv.pc /= "ended" /\ conv.kind = "placeholder"
            /\ conv.emotion \in DOMAIN EMOTIONS)

\* the response of the call in progress begins with a key of the table
\* (letters in any case, other characters around them) and has text after it
TaggedReply ==
    /\ gem.resp = "text"
    /\ Len(Split1(Filtered(Strip(gem.text)))) = 2
    /\ PotentialEmotion(Split1(Filtered(Strip(gem.text)))[1]) \in EmotionKeys

\* C19: whatever the response (empty, a first word that is no key of the
\* table, a key with no text after it, a response without text, text None),
\* get_chat_response returns a key of the emotion table; a key followed by
\* text is returned as the emotion, with the text after it as the reply.
C19_EmotionInTable ==
    gem.pc = "returned"
        => /\ gem.emotion \in EmotionKeys
           /\ TaggedReply => /\ gem.emotion = PotentialEmotion(FirstWord1(Filtered(Strip(gem.text))))
                             /\ gem.response /= <<>>

C19_Witness ==
    /\ gem.pc = "returned" /\ gem.text = <<"s", "a", "d">>
    /\ gem.emotion = Spell("happy") /\ gem.response = gem.text

\* C20: asked for an emotion that is no key of the table, move_to_emotion
\* does not raise and commands the neutral pose: mouth and eyebrows to 0.
C20_Claim ==
    (ev3.call = "move_to_emotion" /\ ev3.use_Mindstorms /\ ev3.arg \notin DOMAIN EMOTIONS)
        => /\ ~ev3.raised
           /\ ev3.asked = << <<"mouth", 0>>, <<"eyebrow", 0>> >>

\* C21: the mode is always one of the four modes; set_mode with one of them
\* sets it and returns True, with any other value it returns False and
\* leaves the mode as it was; no other step writes the mode.
C21_ModeValid ==
    [][ /\ mode \in Modes /\ mode' \in Modes
        /\ \A m \in SetModeArgs :
             /\ SetMode(m, mode).ret = (m \in Modes)
             /\ SetMode(m, mode).mode = (IF m \in Modes THEN m ELSE mode)
        /\ mode' /= mode =>
             /\ mainPc = "conv" /\ mainPc' = "conv"
             /\ UNCHANGED << label, face_names, is_tracking, is_locked, track_position,
                             end_thread, visionPc, trackPc, loc >>
      ]_vars

C21_Witness == mode = "left hand" /\ trackPc = "fht_mode" /\ mainPc = "conv"

\* C22: before shutdown neither side waits on the other: while main is in
\* its conversation loop and the exit flag is not set, a live tracking loop
\* and a live visualization loop always have a step to take, wherever the
\* conversation is, and a conversation that has not ended always has a step
\* to take, wherever the loops are.
C22_NoWaiting ==
    (mainPc = "conv" /\ ~end_thread)
        => /\ trackPc /= "done" => ENABLED FaceTrackStep
           /\ visionPc /= "done" => ENABLED VisionStep
           /\ conv.pc /= "ended" => ENABLED TurnStep

C22_Witness ==
    /\ mainPc = "conv" /\ ~end_thread
    /\ conv.pc = "say_join" /\ conv.jawPc = "loop" /\ conv.stop_talking
    /\ trackPc = "fht_face" /\ visionPc = "visualize"

\* a fraction <<n, d>> with d > 0 lies in [lo, 1]
InUnit(f, lo) == f[2] > 0 /\ lo * f[2] <= f[1] /\ f[1] <= f[2]

\* C23: calculate_relative_coords returns x and y in [-1, 1] for every bbox,
\* also one that overshoots the frame, and w and h in [0, 1] for every bbox
\* inside the frame, in frames of even and of odd width and height.
C23_RelativeInRange ==
    calc.pc = "returned"
        => /\ InUnit(calc.out[1], -1) /\ InUnit(calc.out[2], -1)
           /\ WithinFrame(calc.box, calc.W, calc.H)
                => InUnit(calc.out[3], 0) /\ InUnit(calc.out[4], 0)

C23_Witness ==
    /\ calc.pc = "returned" /\ calc.W = 3 /\ calc.H = 4
    /\ calc.box = <<3, 4, 0, 0>> /\ WithinFrame(calc.box, calc.W, calc.H)
    /\ calc.out = << <<1, 1>>, <<2, 2>>, <<0, 3>>, <<0, 4>> >>

\* C24: the bbox set_random_tracking generates is a square inside the window
\* (0 <= x, x + size <= width, 0 <= y, y + size <= height) whose side is
\* strictly greater than 5% and strictly less than 40% of the smaller window
\* dimension, for every draw.
C24_Claim ==
    trackPc = "srt_trk"
        => /\ loc.pos[3] = loc.pos[4]
           /\ 0 <= loc.pos[1] /\ loc.pos[1] + loc.pos[3] <= FrameW
           /\ 0 <= loc.pos[2] /\ loc.pos[2] + loc.pos[4] <= FrameH
           /\ 100 * loc.pos[3] > 5 * Min(FrameW, FrameH)
           /\ 100 * loc.pos[3] < 40 * Min(FrameW, FrameH)

\* C25: a combined horizontal angle of exactly 0 gives horizontal eye angle 0
\* and neck angle 0 without a division by zero, whatever the amplitudes.
C25_ZeroCombined ==
    (calc.pc = "returned" /\ calc.ang.combined = 0)
        => calc.ang.horizontal = 0 /\ calc.ang.neck = 0 /\ ~calc.ang.raised

C25_Witness ==
    /\ calc.pc = "returned" /\ calc.ang.combined = 0 /\ ~calc.ang.raised
    /\ calc.cfg.EYE_HORIZONTAL_AMPLITUDE = 5 /\ calc.cfg.NECK_AMPLITUDE = 4
    /\ calc.out[1] /= <<0, 1>>

\* C26: a combined horizontal angle below the eye's horizontal amplitude in
\* magnitude gives neck angle 0 and a horizontal eye angle equal to it.
C26_BelowAmplitude ==
    (calc.pc = "returned" /\ Abs(calc.ang.combined) < calc.cfg.EYE_HORIZONTAL_AMPLITUDE)
        => calc.ang.neck = 0 /\ calc.ang.horizontal = calc.ang.combined

C26_Witness ==
    /\ calc.pc = "returned" /\ calc.cfg.EYE_HORIZONTAL_AMPLITUDE = 5
    /\ calc.ang.combined = -4 /\ calc.ang.horizontal = -4 /\ calc.ang.neck = 0

\* C27: a combined horizontal angle at or above the eye's horizontal
\* amplitude in magnitude sends the eye to the amplitude with the sign of the
\* combined angle, and the neck to the remainder times the neck/eye ratio,
\* truncated to an integer.
C27_Saturated ==
    (calc.pc = "returned" /\ Abs(calc.ang.combined) >= calc.cfg.EYE_HORIZONTAL_AMPLITUDE)
        => /\ calc.ang.horizontal =
                 (IF calc.ang.combined > 0 THEN 1 ELSE IF calc.ang.combined < 0 THEN -1 ELSE 0)
                    * calc.cfg.EYE_HORIZONTAL_AMPLITUDE
           /\ calc.ang.neck =
                 FInt(<<(calc.ang.combined - calc.ang.horizontal) * calc.cfg.NECK_EYE_DIFF[1],
                        calc.cfg.NECK_EYE_DIFF[2]>>)

C27_Witness ==
    /\ calc.pc = "returned" /\ calc.cfg.EYE_HORIZONTAL_AMPLITUDE = 2
    /\ calc.cfg.NECK_EYE_DIFF = <<3, 2>>
    /\ calc.ang.combined = -3 /\ calc.ang.horizontal = -2 /\ calc.ang.neck = -1

\* C28: for every relative bbox calculate_relative_coords can return, the
\* angles of eye_tracking stay within the configured amplitudes.
C28_Claim ==
    calc.pc = "returned"
        => /\ Abs(calc.ang.vertical) <= calc.cfg.EYE_VERTICAL_AMPLITUDE
           /\ Abs(calc.ang.horizontal) <= calc.cfg.EYE_HORIZONTAL_AMPLITUDE
           /\ Abs(calc.ang.neck) <= calc.cfg.NECK_AMPLITUDE

\* the calls of the ev3Handler
Ev3Calls ==
    {"eye_tracking", "move_eyebrows", "move_mouth", "move_to_emotion",
     "move_to_neutral", "move_jaw", "sync_jaw", "close_jaw", "cleanup"}

\* C29: with use_Mindstorms false every call of the ev3Handler, in any order,
\* returns at once: no motor is asked for anything, no command is issued and
\* nothing is raised.
C29_IgnoredWithoutRobot ==
    ~ev3.use_Mindstorms
        => /\ ev3.call \in Ev3Calls \cup {"none"}
           /\ ev3.pc = "idle" /\ ev3.todo = <<>>
           /\ ev3.asked = <<>> /\ ~ev3.req.issued /\ ev3.req.motor = "none"
           /\ ~ev3.raised

C29_Witness ==
    ~ev3.use_Mindstorms /\ ev3.call = "move_to_emotion" /\ ev3.arg = "confused"

\* C30: a cycle that starts with the lock held, whose detection fails and
\* whose draw does not trigger the random target, leaves the target as it
\* was: track_position unchanged, is_tracking and is_locked true, label
\* "Focus", and no random target generated.
C30_Claim ==
    (CycleEnd /\ pre.locked /\ cyc.det = "fail" /\ ~cyc.raised /\ ~cyc.gen)
        => /\ track_position = pre.pos
           /\ is_tracking /\ is_locked
           /\ label = "Focus"

\* the bbox is that of a hand of the type the mode asks for among the hands
\* detected: the first hand for "hands", the right or the left one otherwise
MatchingHand(m, hands, pos) ==
    \/ m = "hands" /\ hands /= <<>> /\ pos = HandBox(hands[1])
    \/ m = "right hand" /\ (\E i \in 1..Len(hands) : hands[i] = "Right") /\ pos = RightBox
    \/ m = "left hand" /\ (\E i \in 1..Len(hands) : hands[i] = "Left") /\ pos = LeftBox

\* C31: hand detection is consulted exactly when the mode read at the start
\* of the cycle is a hand mode, never in "face" mode; it reports a hand only
\* when a hand of the type the mode asks for is among the detected hands;
\* when it reports none, face detection is tried in the same cycle; and the
\* bbox a successful cycle returns is the hand's or the face's.
C31_HandThenFace ==
    [][ /\ (trackPc = "fht_mode" /\ trackPc' /= trackPc)
             => ((trackPc' = "ht_find") <=> (mode \in HandModes))
        /\ (trackPc \in {"ht_find", "ht_408", "ht_414", "ht_416"}
               /\ trackPc' = "fht_handlabel" /\ loc'.is_tracking)
             => MatchingHand(mode, loc.hands, loc'.pos)
        /\ (trackPc = "fht_facetest" /\ trackPc' /= trackPc /\ ~loc.is_tracking)
             => trackPc' = "fht_face"
        /\ (trackPc /= "fht_ret" /\ trackPc' = "fht_ret")
             => \/ cyc'.kind = "hand" /\ loc'.pos \in {RightBox, LeftBox}
                \/ cyc'.kind = "face" /\ loc'.pos = FaceBox
      ]_vars

C31_Witness ==
    /\ trackPc = "fht_ret" /\ mode = "left hand" /\ cyc.kind = "hand"
    /\ loc.pos = LeftBox /\ label = "Left"

\* C32: in every state, also between the assignments of face_hand_tracking
\* and of set_random_tracking, a held lock comes with a tracked target:
\* is_locked implies is_tracking.
C32_LockedIsTracking == is_locked => is_tracking

C32_Witness ==
    /\ trackPc = "srt_label" /\ is_locked /\ is_tracking
    /\ track_position = None /\ label /= "Focus"

\* C33 as stated: whenever visualize() has read is_tracking as true (line
\* 237) and goes on to the overlay, track_position holds a bbox, under every
\* interleaving of the two loops, the first target ever set included.
C33_Claim ==
    (visionPc \in {"v_rect", "v_text"}) => track_position /= None

\* C34: after the termination flag is set, the tracking loop issues at most
\* one more eye_tracking call and the visualization loop makes at most one
\* more visualize call. The flag stays set; each loop reads it only at its
\* iteration boundary and ends there for good once it is set; an iteration
\* starts only from that boundary with the flag clear; and one iteration
\* holds at most one eye_tracking call, resp. one visualize call.
C34_AtMostOneMore ==
    [][ /\ end_thread => end_thread'
        /\ (end_thread /\ trackPc = "check" /\ trackPc' /= trackPc) => trackPc' = "done"
        /\ (end_thread /\ visionPc = "check" /\ visionPc' /= visionPc)
              => visionPc' = "done"
        /\ trackPc = "done" => trackPc' = "done"
        /\ visionPc = "done" => visionPc' = "done"
        /\ (trackPc /= "fht_mode" /\ trackPc' = "fht_mode")
              => (trackPc = "check" /\ ~end_thread /\ cyc'.acts = 0)
        /\ (visionPc /= "visualize" /\ visionPc' = "visualize")
              => (visionPc = "check" /\ ~end_thread)
        /\ EyeCall => (cyc.acts = 0 /\ cyc'.acts = 1)
        /\ cyc'.acts /= cyc.acts => (EyeCall \/ trackPc \in {"sleep", "check"})
        /\ (trackPc = "sleep" /\ trackPc' /= trackPc) => trackPc' = "check"
        /\ (visionPc = "visualize" /\ visionPc' /= visionPc)
              => visionPc' \in {"check", "done"}
      ]_vars

\* the flag is set while both loops are inside an iteration, each with its
\* one further call still ahead
C34_Witness ==
    /\ end_thread /\ trackPc = "eye" /\ cyc.acts = 0 /\ visionPc = "visualize"

\* C35: an exception of visualize() or of the window placement ends the
\* visualization loop for good and leaves the termination flag as it was;
\* the tracking loop goes on iterating (it ends only on the flag) and can
\* always take its next step; no frame is captured any more, the capture
\* being the first statement of visualize(); and stop still returns once
\* the flag is set.
C35_VisionDies ==
    /\ [][ /\ (visionPc \in {"window", "visualize"} /\ visionPc' = "done")
                 => end_thread' = end_thread
           /\ visionPc = "done" => (visionPc' = "done" /\ ~VisionVisualize)
           /\ (trackPc /= "done" /\ trackPc' = "done") => end_thread
         ]_vars
    /\ [](  (visionPc = "done" /\ ~end_thread /\ trackPc \notin {"idle", "done"})
               => ENABLED TrackStep)
    /\ ((visionPc = "done" /\ end_thread) ~> StopReturned)

\* the visualization loop has ended on an exception, the flag is clear and
\* the tracking loop is in the middle of an iteration
C35_Witness ==
    /\ visionPc = "done" /\ ~end_thread /\ mainPc = "conv"
    /\ trackPc = "eye" /\ cyc.det = "success"

\* C36 as stated: for every say() with the robot, in any sequence of calls,
\* stop_talking is false when the jaw-sync thread of the call is started,
\* the thread leaves its loop only after this call has set stop_talking
\* (line 390), and stop_talking is false again when thread.join() has
\* returned, also after an earlier jaw-sync thread ended by an error.
C36_Claim ==
    [][ /\ (conv.jawPc /= "start" /\ conv'.jawPc = "start") => ~conv.stop_talking
        /\ (conv.jawPc = "loop" /\ conv'.jawPc = "done") => conv.pc = "say_join"
        /\ (conv.pc = "say_join" /\ conv'.pc = "say_neutral") => ~conv'.stop_talking
      ]_vars

(* --------------------- the whole program, to its end ------------------- *)
\* the steps of the conversation that the main thread takes itself
ConvMainStep ==
    \/ ConvTop \/ ConvListenPose \/ ConvListen \/ ConvNeutralPose \/ ConvBranch
    \/ ConvReply \/ SayEmotion \/ SaySpeak \/ SayStop \/ SayJoin \/ SayNeutral

\* a step of main inside its loop; the turns explored here have one
\* transcript and one emotion, and the call that may raise is the speech
\* engine's (say, lines 378-379)
SayTurnStep ==
    /\ ConvRuns
    /\ ConvMainStep
    /\ conv'.prompt \in {<<>>, <<"h", "i">>}
    /\ conv'.emotion \in {"none", "happy"}
    /\ conv'.kind \in {"none", "transcript", "timeout", "reply"}
    /\ conv'.failed \in {"none", "engine"}

\* main, lines 46-48 and 25-56: the loop is left by the break of the shutdown
\* phrase or by the exception that ended it, into threadHandler.__exit__
ConvLeave ==
    /\ conv.pc = "ended"
    /\ IF conv.exit = "shutdown" THEN ConvShutdown ELSE ConvRaise

\* the jaw-sync thread of say, which runs on whatever main does
JawStep == JawStart \/ JawLoop

\* main from EV3() to the end of ev3Handler.__exit__, with the conversation
\* loop, the jaw-sync thread and the two loops of the thread handler
ProgramNext ==
    \/ MainStart \/ MainSetup \/ StartVision \/ StartTrack
    \/ FaceTrackStep
    \/ VisionStep
    \/ SayTurnStep
    \/ JawStep
    \/ ConvLeave
    \/ ThExitFlag \/ ThJoinVision \/ ThJoinTrack \/ Ev3Exit \/ Ev3Cleanup

ProgramSpec == Init /\ [][ProgramNext]_vars

\* the six motors of setup_motors
Motors == {"eye_horizontal", "eye_vertical", "neck", "eyebrow", "mouth", "jaw"}

\* the motors the tracking loop commands while it runs: eye_tracking,
\* lines 392-423
TrackingCommands ==
    IF trackPc \notin {"idle", "done"}
    THEN {"eye_horizontal", "eye_vertical", "neck"} ELSE {}

\* the motor the audio callback commands while the input stream of
\* sync_mouth is open: sync_jaw, lines 240-248
CallbackCommands == IF conv.jawPc = "loop" THEN {"jaw"} ELSE {}

\* the motors the main thread commands where it stands: the constructor
\* (center_eyes, close_jaw), move_eyebrows of main lines 35 and 37,
\* move_to_emotion and move_to_neutral of say, and _cleanup
MainCommands ==
    CASE mainPc = "start" -> {"eye_horizontal", "eye_vertical", "jaw"}
      [] mainPc = "ev3_cleanup" -> Motors
      [] mainPc = "conv" /\ conv.pc \in {"listen_pose", "neutral_pose"} -> {"eyebrow"}
      [] mainPc = "conv" /\ conv.pc = "say_emotion" -> {"eyebrow", "mouth"}
      [] mainPc = "conv" /\ conv.pc = "say_neutral" -> {"eyebrow", "mouth", "jaw"}
      [] OTHER -> {}

\* C37 as stated: at any time each motor is commanded by at most one thread:
\* the eye and neck motors by the tracking loop while it runs and by the
\* cleanup only after it, the eyebrow and mouth motors by the main thread
\* only, the jaw motor by the audio callback only between the start and the
\* join of the jaw-sync thread and by the main thread only outside of it.
C37_Claim ==
    /\ TrackingCommands \cap MainCommands = {}
    /\ CallbackCommands \cap MainCommands = {}
    /\ (TrackingCommands \cup CallbackCommands) \cap {"eyebrow", "mouth"} = {}

(* ----------------- the ev3Handler to the end of its life --------------- *)
\* the calls of the users of the handler, before its __exit__
Ev3UseStep ==
    \/ Ev3MoveEyebrows \/ Ev3MoveMouth \/ Ev3MoveToEmotion \/ Ev3MoveToNeutral
    \/ Ev3EyeTracking \/ Ev3MoveIfNeeded
    \/ Ev3MoveJaw \/ Ev3SyncJaw \/ Ev3CloseJaw

\* the statements of _cleanup that address a motor, in the order of lines
\* 491-499: move_to_neutral (mouth, eyebrows, jaw), then the eyes and the neck
CleanupOrder ==
    << "mouth", "eyebrow", "jaw", "eye_horizontal", "eye_vertical", "neck" >>

\* _cleanup, line 484: without the robot nothing is done; with it, the
\* handler goes through CleanupOrder (ev3.todo is what is left of it)
CleanupBegin(call) ==
    ev3' = IF ev3.use_Mindstorms
           THEN [NoEv3(TRUE) EXCEPT !.call = call, !.pc = "cleanup",
                                    !.todo = CleanupOrder]
           ELSE [NoEv3(FALSE) EXCEPT !.call = call, !.pc = "returned"]

\* __exit__, lines 516-522: _cleanup is called, at any time the handler is idle
Ev3ExitCall ==
    /\ ev3.pc = "idle"
    /\ CleanupBegin("__exit__")
    /\ UNCHANGED ev3Rest

\* _cleanup, lines 491-499: the next motor of CleanupOrder. The mouth, the
\* eyebrows, the eyes and the neck are sent to 0 unless their reading is
\* within the tolerance (lines 278-280, 305-307, 497-499); close_jaw starts
\* the jaw whatever its position (line 213)
CleanupMove ==
    /\ ev3.pc = "cleanup"
    /\ ev3.todo /= <<>>
    /\ LET motor == Head(ev3.todo)
       IN \E current \in Angles :
            /\ motor = "jaw" => current = 0
            /\ ev3' = [ev3 EXCEPT
                         !.todo = Tail(@),
                         !.asked = Append(@, <<motor, 0>>),
                         !.req = IF motor = "jaw"
                                 THEN [Request("jaw", 0, 0) EXCEPT !.issued = TRUE]
                                 ELSE Request(motor, 0, 10 * current)]
    /\ UNCHANGED ev3Rest

\* _cleanup, lines 505-510: the six motors are stopped, and the call returns
CleanupStop ==
    /\ ev3.pc = "cleanup"
    /\ ev3.todo = <<>>
    /\ ev3' = [ev3 EXCEPT !.pc = "returned", !.req = NoReq]
    /\ UNCHANGED ev3Rest

\* __del__, lines 524-530: _cleanup is called again when the handler is
\* collected, after its __exit__
Ev3DelCall ==
    /\ ev3.call = "__exit__"
    /\ ev3.pc = "returned"
    /\ CleanupBegin("__del__")
    /\ UNCHANGED ev3Rest

LifeStep ==
    \/ Ev3UseStep
    \/ Ev3ExitCall \/ CleanupMove \/ CleanupStop \/ Ev3DelCall

\* the handler under the calls of its users, then __exit__, then __del__
LifeSpec == PartsInit /\ [][LifeStep]_vars

\* ev3Handler.__exit__ has returned
ExitReturned ==
    \/ ev3.call = "__exit__" /\ ev3.pc = "returned"
    \/ ev3.call = "__del__"

\* this step sends a movement command to a motor
MoveCommand == ev3'.req /= NoReq /\ ev3'.req.issued /\ ev3' /= ev3

\* C38 as stated: once ev3Handler.__exit__ has returned, no movement command
\* is sent to a motor any more, also when __del__ runs _cleanup a second time.
C38_Claim == [][ExitReturned => ~MoveCommand]_vars

====
